---- MODULE Spec2Model ----
(***************************************************************************)
(* A model of dazfuller/dotprompt: construction of a prompt file from its  *)
(* decoded source (NewPromptFile), and the render pipeline                 *)
(* (GetSystemPrompt / GetUserPrompt -> generatePrompt ->                   *)
(* parseAndValidateParameters -> template engine).                         *)
(*                                                                         *)
(* Go strings are sequences of one-character strings, so that TrimSuffix,  *)
(* HasSuffix, ToLower, Contains and the two regular expressions of         *)
(* cleanName are computed on the characters.  A Go map is a function; its  *)
(* iteration order is an input of the action that ranges over it.  A       *)
(* pointer or a nil-able map is a sequence of length 0 (nil) or 1.         *)
(***************************************************************************)
EXTENDS Integers, Sequences, FiniteSets, TLC

VARIABLES
    phase,      \* "new": nothing constructed yet; "ready": NewPromptFile has
                \* returned; "called": a render call on the document has returned;
                \* "reloaded": the document was serialized and constructed again
                \* "literal": pf is a document built in code, not constructed
                \* "shared": pf is a constructed document that render calls
                \*   are made on, one after the other or at the same time
                \* "stored": tree is a directory that the stores load
    source,     \* the arguments of the NewPromptFile call: [name, data]
    pf,         \* the *PromptFile that NewPromptFile returned, <<>> when nil
    newErr,     \* the error that NewPromptFile returned
    call,       \* the last render call: [fn, values], fn = "none" before any
    template,   \* the template text the last render call handed to generatePrompt
    bound,      \* the local map `bindings` of parseAndValidateParameters when it returned
    result,     \* what the last render call returned: [str, err]
    serialized, \* what pf.Serialize() returned: [data, err], <<>> before the call
    reloaded,   \* what NewPromptFile returned for the serialized document: [pf, err]
    rawName,    \* the argument of a cleanName call
    cleaned,    \* <<cleanName(rawName)>>, <<>> before the call
    recleaned,  \* <<cleanName of the cleaned name>>, <<>> before the call
    loader,     \* the Loader handed to NewManagerFromLoader: <<>> when nil, else
                \* <<[PromptFiles, Err]>>, what its Load returns
    loadCount,  \* the number of Load calls the loader has served
    manager,    \* the *Manager that NewManagerFromLoader returned, <<>> when nil
    managerErr, \* the error that NewManagerFromLoader returned
    lookup,     \* the last GetPromptFile call and what it returned
    names,      \* what the last ListPromptFileNames call returned
    history,    \* the render calls made on the document so far, each with
                \* what it returned: [fn, values, str, err]
    pc,         \* for each concurrent caller, where its render call is
    args,       \* for each concurrent caller, its call: [fn, values, template]
    locals,     \* the binding maps of the calls in progress, by slot
    outcome,    \* for each concurrent caller, what its call returned: [str, err]
    tree,       \* the directory a store was opened on: its entries, by name
    fileStoreLoaded, \* what FileStore.Load returned: <<[files, err]>>
    fsStoreLoaded    \* what FSStore.Load returned: <<[files, err]>>

promptVars == <<source, pf, newErr, call, template, bound, result, serialized, reloaded>>
nameVars == <<rawName, cleaned, recleaned>>
managerVars == <<loader, loadCount, manager, managerErr, lookup, names>>
extraVars ==
    <<history, pc, args, locals, outcome, tree, fileStoreLoaded, fsStoreLoaded>>

vars == <<phase, promptVars, nameVars, managerVars, extraVars>>

----------------------------------------------------------------------------
(* Strings *)

Upper == <<"A","B","C","D","E","F","G","H","I","J","K","L","M",
           "N","O","P","Q","R","S","T","U","V","W","X","Y","Z">>
Lower == <<"a","b","c","d","e","f","g","h","i","j","k","l","m",
           "n","o","p","q","r","s","t","u","v","w","x","y","z">>
Digits == {"0","1","2","3","4","5","6","7","8","9"}

Range(s) == {s[i] : i \in DOMAIN s}

UpperCase == Range(Upper)
LowerCase == Range(Lower)

\* the lower-case letter of each upper-case letter
LowerOf == [c \in UpperCase |-> Lower[CHOOSE i \in DOMAIN Upper : Upper[i] = c]]

ToLowerChar(c) == IF c \in UpperCase THEN LowerOf[c] ELSE c

\* strings.ToLower
ToLower(s) == [i \in DOMAIN s |-> ToLowerChar(s[i])]

\* strings.Contains
Contains(s, sub) ==
    \E i \in 0..(Len(s) - Len(sub)) : SubSeq(s, i + 1, i + Len(sub)) = sub

\* strings.HasSuffix
HasSuffix(s, suffix) ==
    /\ Len(s) >= Len(suffix)
    /\ SubSeq(s, Len(s) - Len(suffix) + 1, Len(s)) = suffix

\* strings.TrimSuffix
TrimSuffix(s, suffix) ==
    IF HasSuffix(s, suffix) THEN SubSeq(s, 1, Len(s) - Len(suffix)) ELSE s

\* strings.Trim(s, cutset): drop the leading and trailing characters of cutset
RECURSIVE TrimLeft(_, _)
TrimLeft(s, cutset) ==
    IF s # <<>> /\ Head(s) \in cutset THEN TrimLeft(Tail(s), cutset) ELSE s

RECURSIVE TrimRight(_, _)
TrimRight(s, cutset) ==
    IF s # <<>> /\ s[Len(s)] \in cutset
    THEN TrimRight(SubSeq(s, 1, Len(s) - 1), cutset)
    ELSE s

Trim(s, cutset) == TrimRight(TrimLeft(s, cutset), cutset)

----------------------------------------------------------------------------
(* Errors.  A PromptError is its message: the format string, and the key   *)
(* and type the format string is filled with.                              *)

NoKey == <<>>
NoType == <<>>
NoErr == [msg |-> "", key |-> NoKey, type |-> NoType]
PromptError(msg, key, type) == [msg |-> msg, key |-> key, type |-> type]

ParseErrorMsg == "failed to parse prompt file: %v"
NoUserPromptMsg == "no user prompt template was provided in the prompt file"
EmptyNameMsg == "the prompt file name, once cleaned, is empty"
InvalidTypeMsg == "invalid data type for parameter %s: %s"
MissingMsg == "no value provided for parameter %s"
NotATypeMsg == "parameter %s is not a %s"
RenderErrorMsg == "failed to render prompt: %v"
MarshalErrorMsg == "failed to marshal prompt file: %v"

----------------------------------------------------------------------------
(* Declared types and output formats *)

tString == <<"s","t","r","i","n","g">>
tNumber == <<"n","u","m","b","e","r">>
tBool == <<"b","o","o","l">>
tDatetime == <<"d","a","t","e","t","i","m","e">>
tObject == <<"o","b","j","e","c","t">>
tCat == <<"c","a","t">>

validDataTypes == <<tString, tNumber, tBool, tDatetime, tObject>>

\* const ( Text OutputFormat = iota; Json )
Text == 0
Json == 1

sText == <<"t","e","x","t">>
sJson == <<"j","s","o","n">>

\* OutputFormat.UnmarshalYAML on a scalar node: [ok, of]
UnmarshalOutputFormat(value) ==
    IF ToLower(value) = sText THEN [ok |-> TRUE, of |-> Text]
    ELSE IF ToLower(value) = sJson THEN [ok |-> TRUE, of |-> Json]
    ELSE [ok |-> FALSE, of |-> Text]

\* MarshalYAML without the method: the encoder writes the integer
MarshalOutputFormat_asInteger(of) ==
    IF of = Text THEN [ok |-> TRUE, value |-> <<"0">>]
    ELSE IF of = Json THEN [ok |-> TRUE, value |-> <<"1">>]
    ELSE [ok |-> FALSE, value |-> <<>>]

\* OutputFormat.MarshalYAML: [ok, value]
MarshalOutputFormat(of) ==
    IF of = Text THEN [ok |-> TRUE, value |-> sText]
    ELSE IF of = Json THEN [ok |-> TRUE, value |-> sJson]
    ELSE [ok |-> FALSE, value |-> <<>>]

----------------------------------------------------------------------------
(* Name normalisation *)

\* invalidCharsRegex: every character outside [A-Za-z0-9 \-\r\n] is removed
IsValidNameChar(c) ==
    \/ c \in UpperCase \/ c \in LowerCase \/ c \in Digits
    \/ c \in {" ", "-", "\r", "\n"}

\* multipleSpacesRegex: [\s\r\n]
IsSpaceChar(c) == c \in {" ", "\t", "\n", "\r", "\f"}

StripInvalidChars(s) == SelectSeq(s, IsValidNameChar)

\* multipleSpacesRegex without the +: each space character becomes a hyphen
ReplaceSpaceRuns_eachSpace(s) ==
    [i \in DOMAIN s |-> IF IsSpaceChar(s[i]) THEN "-" ELSE s[i]]

\* multipleSpacesRegex.ReplaceAllString(s, "-"): each maximal run becomes one hyphen
RECURSIVE ReplaceSpaceRuns(_)
ReplaceSpaceRuns(s) ==
    IF s = <<>> THEN <<>>
    ELSE IF IsSpaceChar(Head(s))
         THEN <<"-">> \o ReplaceSpaceRuns(TrimLeft(s, {" ", "\t", "\n", "\r", "\f"}))
         ELSE <<Head(s)>> \o ReplaceSpaceRuns(Tail(s))

\* cleanName trimming the hyphens before the space runs are replaced
cleanName_trimFirst(name) ==
    ToLower(ReplaceSpaceRuns(Trim(StripInvalidChars(name), {"-"})))

\* cleanName(name)
cleanName(name) ==
    ToLower(Trim(ReplaceSpaceRuns(StripInvalidChars(name)), {"-"}))

----------------------------------------------------------------------------
(* Values of type interface{}.  kind is the dynamic Go type, str is the    *)
(* result of the String() method when the type has one (<<>> when it has   *)
(* none), text is the value printed field by field (fmt's %+v without the  *)
(* String method; the content itself for a string).                        *)

Value(kind, str, text) == [kind |-> kind, str |-> str, text |-> text]

StringValue(text) == Value("string", <<>>, text)

\* value.(fmt.Stringer)
IsStringer(value) == value.str # <<>>

\* fmt.Sprintf("%+v", value): fmt prints a Stringer through its String method
SprintfPlusV(value) == IF IsStringer(value) THEN value.str[1] ELSE value.text

\* MapGet: m[key] of a Go map, the zero value when the key is absent
MapGet(m, key, zero) == IF key \in DOMAIN m THEN m[key] ELSE zero

\* The orders in which a range over a map with key set S can visit the keys
Orders(S) ==
    {o \in [1..Cardinality(S) -> S] : \A k \in S : \E i \in DOMAIN o : o[i] = k}

----------------------------------------------------------------------------
(* Construction *)

Optional == <<"?">>

\* yaml.Unmarshal(data, promptFile): [ok, promptFile].  data is the decoded
\* YAML document: a field that is absent from the document is <<>> and
\* leaves the zero value in the struct.
Unmarshal(data) ==
    LET legacy == IF data.outputFormat = <<>> THEN [ok |-> TRUE, of |-> Text]
                  ELSE UnmarshalOutputFormat(data.outputFormat[1])
        nested == IF data.output = <<>> THEN [ok |-> TRUE, of |-> Text]
                  ELSE UnmarshalOutputFormat(data.output[1])
    IN  [ok |-> data.wellformed /\ legacy.ok /\ nested.ok,
         promptFile |->
            [Name |-> data.name,
             Model |-> data.model,
             Config |->
                [Temperature |-> data.temperature,
                 MaxTokens |-> data.maxTokens,
                 OutputFormat |-> legacy.of,
                 Input |-> [Parameters |-> data.parameters,
                            Default |-> data.default],
                 Output |-> IF data.output = <<>> THEN <<>>
                            ELSE <<[Format |-> nested.of]>>],
             Prompts |-> [System |-> data.system, User |-> data.user],
             FewShots |-> data.fewShots]]

\* NewPromptFile without the check of the user template
missingUserPrompt_unchecked(promptFile) == FALSE

\* len(promptFile.Prompts.User) == 0
missingUserPrompt(promptFile) == Len(promptFile.Prompts.User) = 0

\* withName with the name argument taken before the decoded name
withName_argumentFirst(promptFile, name) ==
    [promptFile EXCEPT !.Name =
        cleanName(IF Len(name) = 0 THEN promptFile.Name ELSE name)]

\* the name of the document: the decoded name, else the name argument; cleaned
withName(promptFile, name) ==
    [promptFile EXCEPT !.Name =
        cleanName(IF Len(promptFile.Name) = 0 THEN name ELSE promptFile.Name)]

\* the range checking the type of the required keys only
RECURSIVE invalidParameter_requiredOnly(_, _)
invalidParameter_requiredOnly(parameters, order) ==
    IF order = <<>> THEN <<>>
    ELSE IF /\ ~HasSuffix(Head(order), Optional)
            /\ parameters[Head(order)] \notin Range(validDataTypes)
         THEN <<Head(order)>>
         ELSE invalidParameter_requiredOnly(parameters, Tail(order))

\* the range over Config.Input.Parameters: the first key, in the order of the
\* range, whose type is not in validDataTypes (<<>> when there is none)
RECURSIVE invalidParameter(_, _)
invalidParameter(parameters, order) ==
    IF order = <<>> THEN <<>>
    ELSE IF parameters[Head(order)] \notin Range(validDataTypes)
         THEN <<Head(order)>>
         ELSE invalidParameter(parameters, Tail(order))

\* reconcileOutputFormat with the last assignment turned round: the legacy
\* field overwrites the nested one
reconcileOutputFormat_legacyWins(config) ==
    LET withOutput == IF config.Output = <<>>
                      THEN [config EXCEPT !.Output = <<[Format |-> config.OutputFormat]>>]
                      ELSE config
    IN  [withOutput EXCEPT !.Output = <<[Format |-> withOutput.OutputFormat]>>]

\* Config.Output is set from Config.OutputFormat when nil, then
\* Config.OutputFormat is overwritten with Config.Output.Format
reconcileOutputFormat(config) ==
    LET withOutput == IF config.Output = <<>>
                      THEN [config EXCEPT !.Output = <<[Format |-> config.OutputFormat]>>]
                      ELSE config
    IN  [withOutput EXCEPT !.OutputFormat = withOutput.Output[1].Format]

\* NewPromptFile checking, after the declared types, the defaults against
\* them as a render checks the bound values
NewPromptFile_defaultsChecked(name, data, order) ==
    LET dec == Unmarshal(data)
        named == withName(dec.promptFile, name)
        parameters == named.Config.Input.Parameters
        default == named.Config.Input.Default
        invalid == invalidParameter(parameters, order)
        passes(type, value) ==
            CASE type = tString -> value.kind = "string"
              [] type = tNumber -> value.kind \in {"int", "int64", "float64"}
              [] type = tBool -> value.kind = "bool"
              [] type = tDatetime -> value.kind = "time.Time"
              [] OTHER -> TRUE
        failing == {key \in DOMAIN parameters \cap DOMAIN default :
                        ~passes(parameters[key], default[key])}
    IN  IF ~dec.ok
        THEN [pf |-> <<>>, err |-> PromptError(ParseErrorMsg, NoKey, NoType)]
        ELSE IF missingUserPrompt(dec.promptFile)
        THEN [pf |-> <<>>, err |-> PromptError(NoUserPromptMsg, NoKey, NoType)]
        ELSE IF Len(named.Name) = 0
        THEN [pf |-> <<>>, err |-> PromptError(EmptyNameMsg, NoKey, NoType)]
        ELSE IF invalid # <<>>
        THEN [pf |-> <<>>,
              err |-> PromptError(InvalidTypeMsg, invalid[1], parameters[invalid[1]])]
        ELSE IF failing # {}
        THEN [pf |-> <<>>,
              err |-> LET key == CHOOSE key \in failing : TRUE
                      IN  PromptError(NotATypeMsg, key, parameters[key])]
        ELSE [pf |-> <<[named EXCEPT !.Config = reconcileOutputFormat(named.Config)]>>,
              err |-> NoErr]

\* NewPromptFile returning, with the error of a check made after the name
\* is set, the document as far as it has got
NewPromptFile_partialOnError(name, data, order) ==
    LET dec == Unmarshal(data)
        named == withName(dec.promptFile, name)
        invalid == invalidParameter(named.Config.Input.Parameters, order)
    IN  IF ~dec.ok
        THEN [pf |-> <<>>, err |-> PromptError(ParseErrorMsg, NoKey, NoType)]
        ELSE IF missingUserPrompt(dec.promptFile)
        THEN [pf |-> <<>>, err |-> PromptError(NoUserPromptMsg, NoKey, NoType)]
        ELSE IF Len(named.Name) = 0
        THEN [pf |-> <<named>>, err |-> PromptError(EmptyNameMsg, NoKey, NoType)]
        ELSE IF invalid # <<>>
        THEN [pf |-> <<named>>,
              err |-> PromptError(InvalidTypeMsg, invalid[1],
                                  named.Config.Input.Parameters[invalid[1]])]
        ELSE [pf |-> <<[named EXCEPT !.Config = reconcileOutputFormat(named.Config)]>>,
              err |-> NoErr]

\* NewPromptFile with the range over the declared types moved before the
\* check of the user template
NewPromptFile_typesFirst(name, data, order) ==
    LET dec == Unmarshal(data)
        named == withName(dec.promptFile, name)
        invalid == invalidParameter(named.Config.Input.Parameters, order)
    IN  IF ~dec.ok
        THEN [pf |-> <<>>, err |-> PromptError(ParseErrorMsg, NoKey, NoType)]
        ELSE IF invalid # <<>>
        THEN [pf |-> <<>>,
              err |-> PromptError(InvalidTypeMsg, invalid[1],
                                  named.Config.Input.Parameters[invalid[1]])]
        ELSE IF missingUserPrompt(dec.promptFile)
        THEN [pf |-> <<>>, err |-> PromptError(NoUserPromptMsg, NoKey, NoType)]
        ELSE IF Len(named.Name) = 0
        THEN [pf |-> <<>>, err |-> PromptError(EmptyNameMsg, NoKey, NoType)]
        ELSE [pf |-> <<[named EXCEPT !.Config = reconcileOutputFormat(named.Config)]>>,
              err |-> NoErr]

\* NewPromptFile(name, data): [pf, err]; order is the order of the range over
\* the declared parameters
NewPromptFile(name, data, order) ==
    LET dec == Unmarshal(data)
        named == withName(dec.promptFile, name)
        invalid == invalidParameter(named.Config.Input.Parameters, order)
    IN  IF ~dec.ok
        THEN [pf |-> <<>>, err |-> PromptError(ParseErrorMsg, NoKey, NoType)]
        ELSE IF missingUserPrompt(dec.promptFile)
        THEN [pf |-> <<>>, err |-> PromptError(NoUserPromptMsg, NoKey, NoType)]
        ELSE IF Len(named.Name) = 0
        THEN [pf |-> <<>>, err |-> PromptError(EmptyNameMsg, NoKey, NoType)]
        ELSE IF invalid # <<>>
        THEN [pf |-> <<>>,
              err |-> PromptError(InvalidTypeMsg, invalid[1],
                                  named.Config.Input.Parameters[invalid[1]])]
        ELSE [pf |-> <<[named EXCEPT !.Config = reconcileOutputFormat(named.Config)]>>,
              err |-> NoErr]

\* the body of Serialize for a document whose formats marshal to legacy and
\* nested: [data, err, keys]
marshal(p, legacy, nested, keys) ==
    [data |->
        <<[wellformed |-> TRUE,
           name |-> p.Name,
           model |-> p.Model,
           temperature |-> p.Config.Temperature,
           maxTokens |-> p.Config.MaxTokens,
           outputFormat |-> <<legacy>>,
           output |-> IF p.Config.Output = <<>> THEN <<>> ELSE <<nested>>,
           parameters |-> p.Config.Input.Parameters,
           default |-> p.Config.Input.Default,
           system |-> p.Prompts.System,
           user |-> p.Prompts.User,
           fewShots |-> p.FewShots]>>,
     err |-> NoErr,
     keys |-> keys]

\* the keys the struct tags have the encoder write whatever the value is
plainKeys ==
    {"config", "config.outputFormat", "config.input", "config.input.parameters",
     "prompts", "prompts.user"}

\* the keys tagged omitempty
omitemptyKeys ==
    {"name", "model", "config.temperature", "config.maxTokens",
     "config.input.default", "config.output", "config.output.format",
     "prompts.system", "fewShots"}

\* the tags without omitempty: every key is written
writtenKeys_noOmitEmpty(p) == omitemptyKeys

\* the keys tagged omitempty that the encoder writes for p: those of a
\* non-empty string, map or list and of a non-nil pointer
writtenKeys(p) ==
    {k \in omitemptyKeys :
        CASE k = "name" -> Len(p.Name) > 0
          [] k = "model" -> Len(p.Model) > 0
          [] k = "config.temperature" -> p.Config.Temperature # <<>>
          [] k = "config.maxTokens" -> p.Config.MaxTokens # <<>>
          [] k = "config.input.default" -> DOMAIN p.Config.Input.Default # {}
          [] k \in {"config.output", "config.output.format"} -> p.Config.Output # <<>>
          [] k = "prompts.system" -> Len(p.Prompts.System) > 0
          [] k = "fewShots" -> Len(p.FewShots) > 0}

\* pf.Serialize(): [data, err, keys], data the YAML document the encoder
\* writes and keys the keys it has.  Of the fields tagged omitempty, an empty
\* string, a nil pointer, an empty map and an empty list are not written, so
\* the document has them absent.
Serialize(p) ==
    LET legacy == MarshalOutputFormat(p.Config.OutputFormat)
        nested == IF p.Config.Output = <<>> THEN [ok |-> TRUE, value |-> <<>>]
                  ELSE MarshalOutputFormat(p.Config.Output[1].Format)
    IN  IF ~legacy.ok \/ ~nested.ok
        THEN [data |-> <<>>, err |-> PromptError(MarshalErrorMsg, NoKey, NoType),
              keys |-> {}]
        ELSE marshal(p, legacy.value, nested.value, plainKeys \cup writtenKeys(p))

----------------------------------------------------------------------------
(* Binding and validation *)

\* bindValue reducing the value to a string whatever the declared type
bindValue_reduceAll(parameterType, value) ==
    IF IsStringer(value) THEN StringValue(value.str[1])
    ELSE StringValue(SprintfPlusV(value))

\* the value bound for a caller value: an object is reduced to a string,
\* through String() when the value is a fmt.Stringer and through %+v
\* otherwise; any other declared type binds the value as it is
bindValue(parameterType, value) ==
    IF IsStringer(value) /\ parameterType = tObject
    THEN StringValue(value.str[1])
    ELSE IF parameterType = tObject
    THEN StringValue(SprintfPlusV(value))
    ELSE value

\* bindParameter without the branch that reports a required key without a
\* value: the key is skipped like an optional one
bindParameter_missingSkipped(key, parameters, values, defaults, bindings) ==
    LET keyWithoutOptionalSuffix == TrimSuffix(key, Optional)
        parameterType == ToLower(parameters[key])
        put(v) == [k \in DOMAIN bindings \cup {keyWithoutOptionalSuffix} |->
                     IF k = keyWithoutOptionalSuffix THEN v ELSE bindings[k]]
    IN  IF keyWithoutOptionalSuffix \in DOMAIN values
        THEN [missing |-> FALSE,
              bindings |-> put(bindValue(parameterType, values[keyWithoutOptionalSuffix]))]
        ELSE IF keyWithoutOptionalSuffix \in DOMAIN defaults
        THEN [missing |-> FALSE, bindings |-> put(defaults[keyWithoutOptionalSuffix])]
        ELSE [missing |-> FALSE, bindings |-> bindings]

\* bindParameter with the default looked up before the caller's value
bindParameter_defaultFirst(key, parameters, values, defaults, bindings) ==
    LET keyWithoutOptionalSuffix == TrimSuffix(key, Optional)
        parameterType == ToLower(parameters[key])
        put(v) == [k \in DOMAIN bindings \cup {keyWithoutOptionalSuffix} |->
                     IF k = keyWithoutOptionalSuffix THEN v ELSE bindings[k]]
    IN  IF keyWithoutOptionalSuffix \in DOMAIN defaults
        THEN [missing |-> FALSE, bindings |-> put(defaults[keyWithoutOptionalSuffix])]
        ELSE IF keyWithoutOptionalSuffix \in DOMAIN values
        THEN [missing |-> FALSE,
              bindings |-> put(bindValue(parameterType, values[keyWithoutOptionalSuffix]))]
        ELSE IF ~HasSuffix(key, Optional)
        THEN [missing |-> TRUE, bindings |-> bindings]
        ELSE [missing |-> FALSE, bindings |-> bindings]

\* bindParameter binding an optional key without a value to an empty string
\* instead of leaving it out
bindParameter_optionalBoundEmpty(key, parameters, values, defaults, bindings) ==
    LET keyWithoutOptionalSuffix == TrimSuffix(key, Optional)
        parameterType == ToLower(parameters[key])
        put(v) == [k \in DOMAIN bindings \cup {keyWithoutOptionalSuffix} |->
                     IF k = keyWithoutOptionalSuffix THEN v ELSE bindings[k]]
    IN  IF keyWithoutOptionalSuffix \in DOMAIN values
        THEN [missing |-> FALSE,
              bindings |-> put(bindValue(parameterType, values[keyWithoutOptionalSuffix]))]
        ELSE IF keyWithoutOptionalSuffix \in DOMAIN defaults
        THEN [missing |-> FALSE, bindings |-> put(defaults[keyWithoutOptionalSuffix])]
        ELSE IF ~HasSuffix(key, Optional)
        THEN [missing |-> TRUE, bindings |-> bindings]
        ELSE [missing |-> FALSE, bindings |-> put(StringValue(<<>>))]

\* one turn of the first loop, for the declared key `key`:
\* [missing, bindings]
bindParameter(key, parameters, values, defaults, bindings) ==
    LET keyWithoutOptionalSuffix == TrimSuffix(key, Optional)
        parameterType == ToLower(parameters[key])
        put(v) == [k \in DOMAIN bindings \cup {keyWithoutOptionalSuffix} |->
                     IF k = keyWithoutOptionalSuffix THEN v ELSE bindings[k]]
    IN  IF keyWithoutOptionalSuffix \in DOMAIN values
        THEN [missing |-> FALSE,
              bindings |-> put(bindValue(parameterType, values[keyWithoutOptionalSuffix]))]
        ELSE IF keyWithoutOptionalSuffix \in DOMAIN defaults
        THEN [missing |-> FALSE, bindings |-> put(defaults[keyWithoutOptionalSuffix])]
        ELSE IF ~HasSuffix(key, Optional)
        THEN [missing |-> TRUE, bindings |-> bindings]
        ELSE [missing |-> FALSE, bindings |-> bindings]

\* the first loop checking the type of each value as soon as it is bound,
\* instead of after every key has been bound
RECURSIVE bindParameters_checkingAsItBinds(_, _, _, _, _)
bindParameters_checkingAsItBinds(order, parameters, values, defaults, bindings) ==
    IF order = <<>> THEN [err |-> NoErr, bindings |-> bindings]
    ELSE LET key == Head(order)
             k == TrimSuffix(key, Optional)
             one == bindParameter(key, parameters, values, defaults, bindings)
         IN  IF one.missing
             THEN [err |-> PromptError(MissingMsg, key, NoType),
                   bindings |-> one.bindings]
             ELSE IF /\ k \in DOMAIN one.bindings
                     /\ parameters[key] \in {tString, tNumber, tBool, tDatetime}
                     /\ one.bindings[k].kind \notin
                          (CASE parameters[key] = tString -> {"string"}
                             [] parameters[key] = tBool -> {"bool"}
                             [] parameters[key] = tDatetime -> {"time.Time"}
                             [] OTHER -> {"int", "int8", "int16", "int32", "int64",
                                          "float32", "float64"})
             THEN [err |-> PromptError(NotATypeMsg, k, parameters[key]),
                   bindings |-> one.bindings]
             ELSE bindParameters_checkingAsItBinds(Tail(order), parameters, values,
                                                   defaults, one.bindings)

\* the first loop, over the declared keys in the order `order`:
\* [err, bindings]; it returns at the first required key without a value
RECURSIVE bindParameters(_, _, _, _, _)
bindParameters(order, parameters, values, defaults, bindings) ==
    IF order = <<>> THEN [err |-> NoErr, bindings |-> bindings]
    ELSE LET one == bindParameter(Head(order), parameters, values, defaults, bindings)
         IN  IF one.missing
             THEN [err |-> PromptError(MissingMsg, Head(order), NoType),
                   bindings |-> one.bindings]
             ELSE bindParameters(Tail(order), parameters, values, defaults, one.bindings)

\* isNumeric with the case of the unsigned integer types
isNumeric_withUnsigned(value) ==
    value.kind \in {"int", "int8", "int16", "int32", "int64",
                    "uint", "uint8", "uint16", "uint32", "uint64",
                    "float32", "float64"}

\* isNumeric: the type switch over the signed integer and the float types
isNumeric(value) ==
    value.kind \in {"int", "int8", "int16", "int32", "int64", "float32", "float64"}

\* conforms without the datetime case of the switch
conforms_noDatetimeCase(expectedType, value) ==
    IF expectedType = tString THEN value.kind = "string"
    ELSE IF expectedType = tNumber THEN isNumeric(value)
    ELSE IF expectedType = tBool THEN value.kind = "bool"
    ELSE TRUE

\* the switch on expectedType in the second loop: TRUE when the value passes
conforms(expectedType, value) ==
    IF expectedType = tString THEN value.kind = "string"
    ELSE IF expectedType = tNumber THEN isNumeric(value)
    ELSE IF expectedType = tBool THEN value.kind = "bool"
    ELSE IF expectedType = tDatetime THEN value.kind = "time.Time"
    ELSE TRUE

\* the second loop, over the bound keys in the order `order`: the error of
\* the first bound value that does not pass, NoErr when all pass
RECURSIVE validateBindings(_, _, _)
validateBindings(order, parameters, bindings) ==
    IF order = <<>> THEN NoErr
    ELSE LET key == Head(order)
             expectedType == MapGet(parameters, key, <<>>)
         IN  IF ~conforms(expectedType, bindings[key])
             THEN PromptError(NotATypeMsg, key, expectedType)
             ELSE validateBindings(Tail(order), parameters, bindings)

\* parseAndValidateParameters with bindings starting as the caller's map
\* and not as an empty one
parseAndValidateParameters_valuesPreBound(p, values, order1, order2) ==
    LET vals == IF values = <<>> THEN <<>> ELSE values[1]
        b == bindParameters(order1, p.Config.Input.Parameters, vals,
                            p.Config.Input.Default, vals)
        v == validateBindings(order2, p.Config.Input.Parameters, b.bindings)
    IN  IF b.err # NoErr THEN [bindings |-> <<>>, err |-> b.err, local |-> b.bindings]
        ELSE IF v # NoErr THEN [bindings |-> <<>>, err |-> v, local |-> b.bindings]
        ELSE [bindings |-> <<b.bindings>>, err |-> NoErr, local |-> b.bindings]

\* parseAndValidateParameters(values): [bindings, err, local]; bindings is
\* nil (<<>>) on error, local is the local map at the return.  values is
\* <<>> for a nil map and <<m>> for the map m.
parseAndValidateParameters(p, values, order1, order2) ==
    LET vals == IF values = <<>> THEN <<>> ELSE values[1]
        b == bindParameters(order1, p.Config.Input.Parameters, vals,
                            p.Config.Input.Default, <<>>)
        v == validateBindings(order2, p.Config.Input.Parameters, b.bindings)
    IN  IF b.err # NoErr THEN [bindings |-> <<>>, err |-> b.err, local |-> b.bindings]
        ELSE IF v # NoErr THEN [bindings |-> <<>>, err |-> v, local |-> b.bindings]
        ELSE [bindings |-> <<b.bindings>>, err |-> NoErr, local |-> b.bindings]

----------------------------------------------------------------------------
(* Prompt generation *)

promptSuffix ==
    <<"P","l","e","a","s","e"," ","p","r","o","v","i","d","e"," ","t","h","e"," ",
      "r","e","s","p","o","n","s","e"," ","i","n"," ","J","S","O","N">>

\* systemPromptTemplate looking for "json" without lower-casing the templates
systemPromptTemplate_caseSensitive(p) ==
    IF /\ p.Config.OutputFormat = Json
       /\ ~Contains(p.Prompts.System, sJson)
       /\ ~Contains(p.Prompts.User, sJson)
    THEN IF Len(p.Prompts.System) = 0
         THEN promptSuffix
         ELSE p.Prompts.System \o <<" ">> \o promptSuffix
    ELSE p.Prompts.System

\* the template GetSystemPrompt hands to generatePrompt
systemPromptTemplate(p) ==
    IF /\ p.Config.OutputFormat = Json
       /\ ~Contains(ToLower(p.Prompts.System), sJson)
       /\ ~Contains(ToLower(p.Prompts.User), sJson)
    THEN IF Len(p.Prompts.System) = 0
         THEN promptSuffix
         ELSE p.Prompts.System \o <<" ">> \o promptSuffix
    ELSE p.Prompts.System

\* The template engine, engine.ParseAndRenderString(template, bindings):
\* [ok, out].  The engine is a dependency of the repository; of its language
\* the model has the output tag {{name}}, which prints the bound value of
\* name and nothing when name is not bound, and the error of a tag that is
\* not closed.
TagOpen == <<"{", "{">>
TagClose == <<"}", "}">>

StartsWith(s, prefix) == Len(s) >= Len(prefix) /\ SubSeq(s, 1, Len(prefix)) = prefix

RECURSIVE ParseAndRenderString(_, _)
ParseAndRenderString(t, bindings) ==
    IF t = <<>> THEN [ok |-> TRUE, out |-> <<>>]
    ELSE IF StartsWith(t, TagOpen)
    THEN IF ~Contains(t, TagClose) THEN [ok |-> FALSE, out |-> <<>>]
         ELSE LET close == CHOOSE i \in 3..Len(t) - 1 :
                              /\ SubSeq(t, i, i + 1) = TagClose
                              /\ \A j \in 3..(i - 1) : SubSeq(t, j, j + 1) # TagClose
                  name == Trim(SubSeq(t, 3, close - 1), {" "})
                  rest == ParseAndRenderString(SubSeq(t, close + 2, Len(t)), bindings)
              IN  [ok |-> rest.ok,
                   out |-> IF ~rest.ok THEN <<>>
                           ELSE (IF name \in DOMAIN bindings
                                 THEN SprintfPlusV(bindings[name]) ELSE <<>>) \o rest.out]
    ELSE LET rest == ParseAndRenderString(Tail(t), bindings)
         IN  [ok |-> rest.ok,
              out |-> IF rest.ok THEN <<Head(t)>> \o rest.out ELSE <<>>]

\* generatePrompt(template, values): [str, err, local]
generatePrompt(p, t, values, order1, order2) ==
    LET parsed == parseAndValidateParameters(p, values, order1, order2)
        prompt == ParseAndRenderString(t, parsed.bindings[1])
    IN  IF parsed.err # NoErr
        THEN [str |-> <<>>, err |-> parsed.err, local |-> parsed.local]
        ELSE IF ~prompt.ok
        THEN [str |-> <<>>, err |-> PromptError(RenderErrorMsg, NoKey, NoType),
              local |-> parsed.local]
        ELSE [str |-> prompt.out, err |-> NoErr, local |-> parsed.local]

\* the keys the first loop has bound when it is run in the order order1
boundKeys(p, values, order1) ==
    DOMAIN bindParameters(order1, p.Config.Input.Parameters,
                          IF values = <<>> THEN <<>> ELSE values[1],
                          p.Config.Input.Default, <<>>).bindings

----------------------------------------------------------------------------
(* The inputs *)

\* the number of parameters a source declares, at most
MaxParams == 2

\* the length of the generated arguments of cleanName, at most
MaxNameLen == 3

\* the number of documents a loader returns, at most
MaxFiles == 2

\* the number of render calls made one after the other on a document, at most
MaxCalls == 2

\* the number of callers that render at the same time
NumCallers == 2

\* the depth of the directories under the root of a store, at most
MaxDepth == 1

keyA == <<"a">>
keyAOpt == <<"a", "?">>
keyB == <<"b">>

ParameterKeys == {keyA, keyAOpt, keyB}
ParameterTypes == Range(validDataTypes) \cup {tCat}

\* the maps from a subset of keys to the elements of range
Maps(keys, range) == UNION {[d -> range] : d \in SUBSET keys}

Schemas == {m \in Maps(ParameterKeys, ParameterTypes) : Cardinality(DOMAIN m) <= MaxParams}

\* defaults, as the YAML decoder leaves them in a map[string]interface{}
dString == StringValue(<<"M">>)
dMap == Value("map[string]interface {}", <<>>, <<"m","a","p","[","x",":","1","]">>)
DefaultMaps == Maps({keyA}, {dString, dMap})

\* caller values
vString == StringValue(<<"j","s","o","n">>)
vInt == Value("int", <<>>, <<"4","2">>)
vBool == Value("bool", <<>>, <<"t","r","u","e">>)
vTime == Value("time.Time", <<<<"2","0","2","4">>>>, <<"{","w","a","l","l",":","0","}">>)
vStruct == Value("struct { SEP bool }", <<>>, <<"{","S","E","P",":","t","r","u","e","}">>)
vTestStruct == Value("dotprompt.TestStruct", <<<<"H"," ",":"," ","1">>>>,
                     <<"{","I","t","e","m","1",":","H","}">>)
CallerValues == {vString, vInt, vBool, vTime, vStruct, vTestStruct}

\* a value of each integer and float type
NumericKinds == {"int", "int8", "int16", "int32", "int64",
                 "uint", "uint8", "uint16", "uint32", "uint64",
                 "float32", "float64"}
NumericValues == {Value(kind, <<>>, <<"8">>) : kind \in NumericKinds}

\* the values argument of a render call: nil, or a map
CallerMaps ==
    {<<>>} \cup {<<m>> : m \in Maps({keyA, keyB}, CallerValues)}
           \cup {<<(keyA :> v)>> : v \in NumericValues}

\* templates
tplEmpty == <<>>
tplPlain == <<"H","i">>
tplJson == <<"a","s"," ","J","s","o","n">>
tplA == <<"{","{","a","}","}">>
tplAB == <<"{","{","a","}","}","-","{","{"," ","b"," ","}","}">>
tplUnclosed == <<"H","i"," ","{","{","a">>

\* the decoded document of a source; the fields not listed are absent
Data(parameters, default, outputFormat, output, system, user) ==
    [wellformed |-> TRUE, name |-> <<>>, model |-> <<>>, temperature |-> <<>>,
     maxTokens |-> <<>>, outputFormat |-> outputFormat, output |-> output,
     parameters |-> parameters, default |-> default,
     system |-> system, user |-> user, fewShots |-> <<>>]

\* sources that differ in the schema and the defaults
SchemaSources ==
    {Data(parameters, default, <<sText>>, <<>>, tplA, tplAB) :
        parameters \in Schemas, default \in DefaultMaps}

\* sources that differ in the templates and the output format
FormatNodes == {<<>>, <<sText>>, <<<<"J","S","O","N">>>>, <<<<"x","m","l">>>>}
PromptSources ==
    {Data((keyA :> tString), (keyA :> dString), outputFormat, output, system, user) :
        outputFormat \in FormatNodes,
        output \in {<<>>, <<sText>>, <<sJson>>},
        system \in {tplEmpty, tplPlain, tplJson, tplA},
        user \in {tplEmpty, tplPlain, tplJson, tplA, tplUnclosed}}

\* a source that is not YAML
BrokenSource ==
    [Data(<<>>, <<>>, <<>>, <<>>, tplEmpty, tplPlain) EXCEPT !.wellformed = FALSE]

\* sources that differ in the fields a render does not read
fewShot(user, response) == [User |-> user, Response |-> response]
MetaSources ==
    {[Data(<<>>, <<>>, <<>>, <<>>, tplPlain, tplA) EXCEPT
        !.model = model, !.temperature = temperature,
        !.maxTokens = maxTokens, !.fewShots = fewShots] :
        model \in {<<>>, <<"g","p","t">>},
        temperature \in {<<>>, <<"0.0">>, <<"0.7">>},
        maxTokens \in {<<>>, <<"500">>},
        fewShots \in {<<>>, <<fewShot(tplPlain, tplJson), fewShot(tplA, tplPlain)>>}}

\* a source with two defects: no user template and a type that is not valid
DefectSource == Data((keyAOpt :> tCat), <<>>, <<>>, <<>>, tplPlain, tplEmpty)

Sources == SchemaSources \cup PromptSources \cup MetaSources
              \cup {BrokenSource, DefectSource}

\* sources with every combination of the defects that NewPromptFile checks
\* after the name: not YAML, no user template, a type that is not valid
DefectSources ==
    {[Data(parameters, <<>>, <<>>, <<>>, tplPlain, user) EXCEPT
        !.wellformed = wellformed] :
        wellformed \in BOOLEAN,
        user \in {tplEmpty, tplPlain},
        parameters \in {<<>>, (keyAOpt :> tCat)}}

\* names, as a source declares them or as the caller passes them
nameBasic == <<"B","a","s","i","c">>
nameMixedCase == <<"M","y"," ","C","O","O","L"," ","n","A","M","e">>
nameNewlines == <<"c","l","e","a","n","\r","\n","\r","\n","t","h","i","s"," ","n","a","m","e">>
nameInvalidChars ==
    <<"t","h","i","s"," ","<","i","s"," ",".","p","r","e","t","t","y",">"," ",
      "u","n","*","c","l","(",")","e","a","n">>
nameOnlyInvalid == <<"+","+"," ","-","-"," ","(",")">>

\* sources that differ in the declared name
DeclaredNames == {<<>>, nameMixedCase, nameOnlyInvalid}
NameSources ==
    {[Data(<<>>, <<>>, <<>>, <<>>, tplEmpty, tplPlain) EXCEPT !.name = name] :
        name \in DeclaredNames}

\* the name argument of NewPromptFile
FallbackNames == {<<>>, nameBasic, nameNewlines, nameInvalidChars, nameOnlyInvalid}

\* the calls of NewPromptFile: every source under the name of its file, the
\* sources that differ in the declared name under every name argument, and
\* the sources with several defects under a name that cleans to nothing too
NewPromptFileCalls ==
    {<<nameBasic, data>> : data \in Sources}
        \cup (FallbackNames \X NameSources)
        \cup ({nameBasic, nameOnlyInvalid} \X DefectSources)

\* the arguments of cleanName: every string of at most MaxNameLen characters
\* of NameChars, and the names above
NameChars == {"A", "b", "1", " ", "-", "\n", "\t", "*"}
RawNames ==
    UNION {[1..n -> NameChars] : n \in 0..MaxNameLen}
        \cup {nameBasic, nameMixedCase, nameNewlines, nameInvalidChars, nameOnlyInvalid}

\* what a Loader returns: documents, of which the registry reads the name
document(name, user) ==
    [Name |-> name, Model |-> <<>>,
     Config |-> [Temperature |-> <<>>, MaxTokens |-> <<>>, OutputFormat |-> Text,
                 Input |-> [Parameters |-> <<>>, Default |-> <<>>],
                 Output |-> <<>>],
     Prompts |-> [System |-> <<>>, User |-> user],
     FewShots |-> <<>>]
nameExample == <<"e","x","a","m","p","l","e">>
Documents ==
    {document(name, user) : name \in {nameExample, <<"b","a","s","i","c">>, <<>>},
                            user \in {tplEmpty, tplPlain}}
loadError == [msg |-> "error", key |-> NoKey, type |-> NoType]
Loaders ==
    {<<>>} \cup
    {<<[PromptFiles |-> files, Err |-> err]>> :
        files \in UNION {[1..n -> Documents] : n \in 0..MaxFiles},
        err \in {NoErr, loadError}}

\* the name argument of GetPromptFile
LookupNames == {nameExample, <<"b","a","s","i","c">>, <<>>,
                <<"d","o","e","s","-","n","o","t","-","e","x","i","s","t">>}

----------------------------------------------------------------------------
(* The registry *)

NilLoaderMsg == "loader cannot be nil"
DuplicateNameMsg == "duplicate prompt file name: %s"

\* the loop of NewManagerFromLoader without the test for a name already there
RECURSIVE registerAll_lastWins(_, _)
registerAll_lastWins(promptFiles, promptFilesMap) ==
    IF promptFiles = <<>> THEN [duplicate |-> <<>>, promptFilesMap |-> promptFilesMap]
    ELSE LET promptFile == Head(promptFiles)
         IN  registerAll_lastWins(Tail(promptFiles),
                [n \in DOMAIN promptFilesMap \cup {promptFile.Name} |->
                    IF n = promptFile.Name THEN promptFile ELSE promptFilesMap[n]])

\* the loop of NewManagerFromLoader over the loaded documents, in their
\* order: [duplicate, promptFilesMap], duplicate the name found twice
RECURSIVE registerAll(_, _)
registerAll(promptFiles, promptFilesMap) ==
    IF promptFiles = <<>> THEN [duplicate |-> <<>>, promptFilesMap |-> promptFilesMap]
    ELSE LET promptFile == Head(promptFiles)
         IN  IF promptFile.Name \in DOMAIN promptFilesMap
             THEN [duplicate |-> <<promptFile.Name>>, promptFilesMap |-> promptFilesMap]
             ELSE registerAll(Tail(promptFiles),
                    [n \in DOMAIN promptFilesMap \cup {promptFile.Name} |->
                        IF n = promptFile.Name THEN promptFile ELSE promptFilesMap[n]])

\* NewManagerFromLoader registering the documents whatever Load's error is
NewManagerFromLoader_loadErrorIgnored(l) ==
    IF l = <<>>
    THEN [manager |-> <<>>, err |-> PromptError(NilLoaderMsg, NoKey, NoType), loads |-> 0]
    ELSE LET registered == registerAll(l[1].PromptFiles, <<>>)
         IN  IF registered.duplicate # <<>>
             THEN [manager |-> <<>>,
                   err |-> PromptError(DuplicateNameMsg, registered.duplicate[1], NoType),
                   loads |-> 1]
             ELSE [manager |-> <<[PromptFiles |-> registered.promptFilesMap]>>,
                   err |-> NoErr, loads |-> 1]

\* NewManagerFromLoader(loader): [manager, err, loads], loads the number of
\* calls of loader.Load
NewManagerFromLoader(l) ==
    IF l = <<>>
    THEN [manager |-> <<>>, err |-> PromptError(NilLoaderMsg, NoKey, NoType), loads |-> 0]
    ELSE IF l[1].Err # NoErr
    THEN [manager |-> <<>>, err |-> l[1].Err, loads |-> 1]
    ELSE LET registered == registerAll(l[1].PromptFiles, <<>>)
         IN  IF registered.duplicate # <<>>
             THEN [manager |-> <<>>,
                   err |-> PromptError(DuplicateNameMsg, registered.duplicate[1], NoType),
                   loads |-> 1]
             ELSE [manager |-> <<[PromptFiles |-> registered.promptFilesMap]>>,
                   err |-> NoErr, loads |-> 1]

\* the zero value PromptFile{}
zeroPromptFile == document(<<>>, <<>>)

\* m.GetPromptFile(name): [promptFile, ok]
GetPromptFile(m, name) ==
    [promptFile |-> MapGet(m.PromptFiles, name, zeroPromptFile),
     ok |-> name \in DOMAIN m.PromptFiles]

\* m.ListPromptFileNames(): the names appended in the order of the range
RECURSIVE ListPromptFileNames(_, _)
ListPromptFileNames(m, order) ==
    IF order = <<>> THEN <<>>
    ELSE <<Head(order)>> \o ListPromptFileNames(m, Tail(order))

----------------------------------------------------------------------------
(* The state machine *)

NoCall == [fn |-> "none", values |-> <<>>]
NoResult == [str |-> <<>>, err |-> NoErr]
NoLookup == [name |-> <<>>, promptFile |-> <<>>, ok |-> FALSE]

PromptIdle ==
    /\ source = <<>>
    /\ pf = <<>>
    /\ newErr = NoErr
    /\ call = NoCall
    /\ template = <<>>
    /\ bound = <<>>
    /\ result = NoResult
    /\ serialized = <<>>
    /\ reloaded = <<>>

NameIdle ==
    /\ rawName = <<>>
    /\ cleaned = <<>>
    /\ recleaned = <<>>

ManagerIdle ==
    /\ loader = <<>>
    /\ loadCount = 0
    /\ manager = <<>>
    /\ managerErr = NoErr
    /\ lookup = NoLookup
    /\ names = <<>>

ExtraIdle ==
    /\ history = <<>>
    /\ pc = <<>>
    /\ args = <<>>
    /\ locals = <<>>
    /\ outcome = <<>>
    /\ tree = <<>>
    /\ fileStoreLoaded = <<>>
    /\ fsStoreLoaded = <<>>

Init ==
    /\ phase = "new"
    /\ PromptIdle
    /\ NameIdle
    /\ ManagerIdle
    /\ ExtraIdle

\* promptFile, err := NewPromptFile(name, data)
CallNewPromptFile ==
    /\ phase = "new"
    /\ \E c \in NewPromptFileCalls :
         \E order \in Orders(DOMAIN c[2].parameters) :
            LET r == NewPromptFile(c[1], c[2], order)
            IN  /\ source' = <<[name |-> c[1], data |-> c[2]]>>
                /\ pf' = r.pf
                /\ newErr' = r.err
    /\ phase' = "ready"
    /\ UNCHANGED <<call, template, bound, result, serialized, reloaded>>
    /\ UNCHANGED <<nameVars, managerVars, extraVars>>

\* a render call on the constructed document with the template t.  A call
\* reads the document and its arguments and nothing a call before it has
\* left, so a behaviour follows one call.
Render(fn, t, values) ==
    \E order1 \in Orders(DOMAIN pf[1].Config.Input.Parameters) :
        \E order2 \in Orders(boundKeys(pf[1], values, order1)) :
            LET r == generatePrompt(pf[1], t, values, order1, order2)
            IN  /\ call' = [fn |-> fn, values |-> values]
                /\ template' = t
                /\ bound' = r.local
                /\ result' = [str |-> r.str, err |-> r.err]
                /\ phase' = "called"
                /\ UNCHANGED <<source, pf, newErr, serialized, reloaded>>
                /\ UNCHANGED <<nameVars, managerVars, extraVars>>

\* promptFile.GetSystemPrompt(values)
CallGetSystemPrompt ==
    /\ phase = "ready" /\ pf # <<>>
    /\ \E values \in CallerMaps :
         Render("GetSystemPrompt", systemPromptTemplate(pf[1]), values)

\* promptFile.GetUserPrompt(values)
CallGetUserPrompt ==
    /\ phase = "ready" /\ pf # <<>>
    /\ \E values \in CallerMaps :
         Render("GetUserPrompt", pf[1].Prompts.User, values)

\* content, err := promptFile.Serialize()
CallSerialize ==
    /\ phase \in {"ready", "literal"} /\ pf # <<>>
    /\ serialized' = <<Serialize(pf[1])>>
    /\ phase' = "serialized"
    /\ UNCHANGED <<source, pf, newErr, call, template, bound, result, reloaded>>
    /\ UNCHANGED <<nameVars, managerVars, extraVars>>

\* NewPromptFile(promptFile.Name, content) on the serialized document
CallReload ==
    /\ phase = "serialized" /\ serialized[1].err = NoErr
    /\ \E order \in Orders(DOMAIN serialized[1].data[1].parameters) :
          reloaded' = <<NewPromptFile(pf[1].Name, serialized[1].data[1], order)>>
    /\ phase' = "reloaded"
    /\ UNCHANGED <<source, pf, newErr, call, template, bound, result, serialized>>
    /\ UNCHANGED <<nameVars, managerVars, extraVars>>

Next ==
    \/ CallNewPromptFile
    \/ CallGetSystemPrompt
    \/ CallGetUserPrompt
    \/ CallSerialize
    \/ CallReload

Spec == Init /\ [][Next]_vars

----------------------------------------------------------------------------
(* The name normaliser on its own *)

NameInit ==
    /\ phase = "raw"
    /\ rawName \in RawNames
    /\ cleaned = <<>>
    /\ recleaned = <<>>
    /\ PromptIdle
    /\ ManagerIdle
    /\ ExtraIdle

\* cleanName(rawName)
CallCleanName ==
    /\ phase = "raw"
    /\ cleaned' = <<cleanName(rawName)>>
    /\ phase' = "cleaned"
    /\ UNCHANGED <<rawName, recleaned, promptVars, managerVars, extraVars>>

\* cleanName on the name a call before has returned
CallCleanNameAgain ==
    /\ phase = "cleaned"
    /\ recleaned' = <<cleanName(cleaned[1])>>
    /\ phase' = "recleaned"
    /\ UNCHANGED <<rawName, cleaned, promptVars, managerVars, extraVars>>

NameNext == CallCleanName \/ CallCleanNameAgain

NameSpec == NameInit /\ [][NameNext]_vars

----------------------------------------------------------------------------
(* The registry on its own *)

\* mgr, err := NewManagerFromLoader(loader)
CallNewManagerFromLoader ==
    /\ phase = "new"
    /\ \E l \in Loaders :
          LET r == NewManagerFromLoader(l)
          IN  /\ loader' = l
              /\ loadCount' = loadCount + r.loads
              /\ manager' = r.manager
              /\ managerErr' = r.err
    /\ phase' = "managed"
    /\ UNCHANGED <<lookup, names, promptVars, nameVars, extraVars>>

\* mgr.GetPromptFile(name)
CallGetPromptFile ==
    /\ phase \in {"managed", "listed"} /\ manager # <<>>
    /\ \E name \in LookupNames :
          LET r == GetPromptFile(manager[1], name)
          IN  lookup' = [name |-> name, promptFile |-> <<r.promptFile>>, ok |-> r.ok]
    /\ phase' = "found"
    /\ UNCHANGED <<loader, loadCount, manager, managerErr, names, promptVars, nameVars, extraVars>>

\* mgr.ListPromptFileNames()
CallListPromptFileNames ==
    /\ phase = "managed" /\ manager # <<>>
    /\ \E order \in Orders(DOMAIN manager[1].PromptFiles) :
          names' = ListPromptFileNames(manager[1], order)
    /\ phase' = "listed"
    /\ UNCHANGED <<loader, loadCount, manager, managerErr, lookup, promptVars, nameVars, extraVars>>

ManagerNext ==
    \/ CallNewManagerFromLoader
    \/ CallGetPromptFile
    \/ CallListPromptFileNames

ManagerSpec == Init /\ [][ManagerNext]_vars

----------------------------------------------------------------------------
(* Serialize of a document built in code *)

\* PromptFile values written as struct literals, as the Serialize test
\* does: any field can be left at its zero value
Literals ==
    {[Name |-> name, Model |-> model,
      Config |-> [Temperature |-> temperature, MaxTokens |-> maxTokens,
                  OutputFormat |-> outputFormat,
                  Input |-> [Parameters |-> parameters, Default |-> default],
                  Output |-> output],
      Prompts |-> [System |-> system, User |-> user],
      FewShots |-> fewShots] :
        name \in {<<>>, nameExample},
        model \in {<<>>, <<"g","p","t">>},
        temperature \in {<<>>, <<"0.7">>},
        maxTokens \in {<<>>, <<"500">>},
        outputFormat \in {Text, Json},
        parameters \in {<<>>, (keyA :> tNumber)},
        default \in {<<>>, (keyA :> dString)},
        output \in {<<>>, <<[Format |-> Text]>>, <<[Format |-> Json]>>},
        system \in {tplEmpty, tplPlain},
        user \in {tplEmpty, tplA},
        fewShots \in {<<>>, <<fewShot(tplPlain, tplJson)>>}}

SerializeInit ==
    /\ phase = "literal"
    /\ pf \in {<<literal>> : literal \in Literals}
    /\ source = <<>>
    /\ newErr = NoErr
    /\ call = NoCall
    /\ template = <<>>
    /\ bound = <<>>
    /\ result = NoResult
    /\ serialized = <<>>
    /\ reloaded = <<>>
    /\ NameIdle
    /\ ManagerIdle
    /\ ExtraIdle

SerializeNext ==
    \/ CallSerialize
    \/ CallReload

SerializeSpec == SerializeInit /\ [][SerializeNext]_vars

----------------------------------------------------------------------------
(* Render calls one after the other on one document *)

\* the documents the calls are made on: two required keys and no default;
\* one key with a default and the JSON format, which makes GetSystemPrompt
\* add its suffix
SharedDocs ==
    UNION {{NewPromptFile(nameBasic, data, order).pf[1] :
                order \in Orders(DOMAIN data.parameters)} :
           data \in {Data((keyA :> tString) @@ (keyB :> tString), <<>>, <<sText>>, <<>>,
                          tplA, tplAB),
                     Data((keyA :> tString), (keyA :> dString), <<sJson>>, <<>>,
                          tplPlain, tplA)}}

\* the values arguments of the calls
SharedValues ==
    {<<>>, <<(keyA :> vString)>>, <<(keyA :> vInt)>>,
     <<(keyA :> vString) @@ (keyB :> vBool)>>}

RenderInit ==
    /\ phase = "shared"
    /\ pf \in {<<doc>> : doc \in SharedDocs}
    /\ source = <<>>
    /\ newErr = NoErr
    /\ call = NoCall
    /\ template = <<>>
    /\ bound = <<>>
    /\ result = NoResult
    /\ serialized = <<>>
    /\ reloaded = <<>>
    /\ NameIdle
    /\ ManagerIdle
    /\ ExtraIdle

\* one more render call on the document, with the template t; the call is
\* recorded with what it returned and with the document and the caller's map
\* as they are after it: the call assigns to locals only (systemPrompt,
\* values, bindings), so both are as before
RenderAgain(fn, t, values) ==
    /\ phase = "shared" /\ Len(history) < MaxCalls
    /\ \E order1 \in Orders(DOMAIN pf[1].Config.Input.Parameters) :
        \E order2 \in Orders(boundKeys(pf[1], values, order1)) :
            LET r == generatePrompt(pf[1], t, values, order1, order2)
            IN  history' = Append(history,
                                  [fn |-> fn, values |-> values, str |-> r.str,
                                   err |-> r.err, doc |-> pf[1], after |-> values])
    /\ UNCHANGED <<phase, promptVars, nameVars, managerVars, pc, args, locals, outcome,
                   tree, fileStoreLoaded, fsStoreLoaded>>

\* promptFile.GetSystemPrompt(values), again
RepeatGetSystemPrompt ==
    \E values \in SharedValues :
        RenderAgain("GetSystemPrompt", systemPromptTemplate(pf[1]), values)

\* promptFile.GetUserPrompt(values), again
RepeatGetUserPrompt ==
    \E values \in SharedValues :
        RenderAgain("GetUserPrompt", pf[1].Prompts.User, values)

RenderNext ==
    \/ RepeatGetSystemPrompt
    \/ RepeatGetUserPrompt

RenderSpec == RenderInit /\ [][RenderNext]_vars

----------------------------------------------------------------------------
(* Render calls at the same time on one document *)

Callers == 1..NumCallers

\* all callers sharing one binding map
slot_shared(c) == 1

\* bindings := make(map[string]interface{}): the map of the call of caller
\* c is its own
slot(c) == c

ConcurrentInit ==
    /\ phase = "shared"
    /\ pf \in {<<doc>> : doc \in SharedDocs}
    /\ source = <<>>
    /\ newErr = NoErr
    /\ call = NoCall
    /\ template = <<>>
    /\ bound = <<>>
    /\ result = NoResult
    /\ serialized = <<>>
    /\ reloaded = <<>>
    /\ NameIdle
    /\ ManagerIdle
    /\ history = <<>>
    /\ pc = [c \in Callers |-> "idle"]
    /\ args = [c \in Callers |-> <<>>]
    /\ locals = [s \in Callers |-> <<>>]
    /\ outcome = [c \in Callers |-> NoResult]
    /\ tree = <<>>
    /\ fileStoreLoaded = <<>>
    /\ fsStoreLoaded = <<>>

\* caller c enters GetSystemPrompt or GetUserPrompt with its own values:
\* the template is chosen, the binding map made, and the range over the
\* declared parameters begins, in the order order1
Enter(c) ==
    /\ phase = "shared" /\ pc[c] = "idle"
    /\ \E fn \in {"GetSystemPrompt", "GetUserPrompt"}, values \in SharedValues :
        \E order1 \in Orders(DOMAIN pf[1].Config.Input.Parameters) :
            args' = [args EXCEPT ![c] =
                        <<[fn |-> fn, values |-> values,
                           template |-> IF fn = "GetSystemPrompt"
                                        THEN systemPromptTemplate(pf[1])
                                        ELSE pf[1].Prompts.User,
                           order1 |-> order1, todo |-> order1]>>]
    /\ locals' = [locals EXCEPT ![slot(c)] = <<>>]
    /\ pc' = [pc EXCEPT ![c] = "bind"]
    /\ UNCHANGED <<phase, promptVars, nameVars, managerVars, history, outcome,
                   tree, fileStoreLoaded, fsStoreLoaded>>

\* one turn of the first loop of caller c's call
Bind(c) ==
    /\ pc[c] = "bind" /\ args[c][1].todo # <<>>
    /\ LET a == args[c][1]
           one == bindParameter(Head(a.todo), pf[1].Config.Input.Parameters,
                                IF a.values = <<>> THEN <<>> ELSE a.values[1],
                                pf[1].Config.Input.Default, locals[slot(c)])
       IN  IF one.missing
           THEN /\ outcome' = [outcome EXCEPT ![c] =
                                [str |-> <<>>,
                                 err |-> PromptError(MissingMsg, Head(a.todo), NoType)]]
                /\ pc' = [pc EXCEPT ![c] = "done"]
                /\ UNCHANGED <<args, locals>>
           ELSE /\ locals' = [locals EXCEPT ![slot(c)] = one.bindings]
                /\ args' = [args EXCEPT ![c] = <<[a EXCEPT !.todo = Tail(a.todo)]>>]
                /\ UNCHANGED <<pc, outcome>>
    /\ UNCHANGED <<phase, promptVars, nameVars, managerVars, history,
                   tree, fileStoreLoaded, fsStoreLoaded>>

\* the rest of caller c's call: the second loop over its binding map, in
\* some order, and the rendering by its own engine
Finish(c) ==
    /\ pc[c] = "bind" /\ args[c][1].todo = <<>>
    /\ \E order2 \in Orders(DOMAIN locals[slot(c)]) :
        LET bindings == locals[slot(c)]
            v == validateBindings(order2, pf[1].Config.Input.Parameters, bindings)
            prompt == ParseAndRenderString(args[c][1].template, bindings)
        IN  outcome' = [outcome EXCEPT ![c] =
                IF v # NoErr THEN [str |-> <<>>, err |-> v]
                ELSE IF ~prompt.ok
                THEN [str |-> <<>>, err |-> PromptError(RenderErrorMsg, NoKey, NoType)]
                ELSE [str |-> prompt.out, err |-> NoErr]]
    /\ pc' = [pc EXCEPT ![c] = "done"]
    /\ UNCHANGED <<phase, promptVars, nameVars, managerVars, history, args, locals,
                   tree, fileStoreLoaded, fsStoreLoaded>>

ConcurrentNext ==
    \E c \in Callers :
        \/ Enter(c)
        \/ Bind(c)
        \/ Finish(c)

ConcurrentSpec == ConcurrentInit /\ [][ConcurrentNext]_vars

----------------------------------------------------------------------------
(* The two stores *)

promptFileExtension == <<".","p","r","o","m","p","t">>

\* filepath.Ext(name): the suffix of name from its last dot, empty when
\* name has no dot
RECURSIVE Ext(_)
Ext(name) ==
    IF name = <<>> THEN <<>>
    ELSE IF Ext(Tail(name)) # <<>> THEN Ext(Tail(name))
    ELSE IF Head(name) = "." THEN name
    ELSE <<>>

\* NewPromptFileFromFile(path), for the file of name `name` that holds data:
\* [pf, err].  The name argument is the lower-cased file name without its
\* extension.  (The sources of the trees declare no parameter, so the range
\* of NewPromptFile has the one order <<>>.)
NewPromptFileFromFile(name, data) ==
    LET fileName == ToLower(name)
        extension == Ext(fileName)
        promptFileName == TrimSuffix(fileName, extension)
    IN  NewPromptFile(promptFileName, data, <<>>)

\* an entry of a directory: a file with its content, or a directory with its
\* entries in the order of their names
entry(name, isDir, data, entries) ==
    [name |-> name, isDir |-> isDir, data |-> data, entries |-> entries]

\* the directories of depth at most depth: each can hold Other.PROMPT (a
\* document that declares its name), basic.prompt (a document without a
\* name, or one without user template), notes.txt (not a document) and the
\* directory sub, in this order, which is that of their names
RECURSIVE Dirs(_)
Dirs(depth) ==
    LET named == [Data(<<>>, <<>>, <<>>, <<>>, tplEmpty, tplPlain) EXCEPT
                    !.name = nameExample]
        unnamed == Data(<<>>, <<>>, <<>>, <<>>, tplEmpty, tplPlain)
        noUser == Data(<<>>, <<>>, <<>>, <<>>, tplPlain, tplEmpty)
        file(name, data) == <<entry(name, FALSE, <<data>>, <<>>)>>
    IN  {other \o basic \o notes \o sub :
            other \in {<<>>, file(<<"O","t","h","e","r",".","P","R","O","M","P","T">>,
                                  named)},
            basic \in {<<>>} \cup
                      {file(<<"b","a","s","i","c",".","p","r","o","m","p","t">>, data) :
                          data \in {unnamed, noUser}},
            notes \in {<<>>, file(<<"n","o","t","e","s",".","t","x","t">>, BrokenSource)},
            sub \in {<<>>} \cup
                    (IF depth = 0 THEN {}
                     ELSE {<<entry(<<"s","u","b">>, TRUE, <<>>, entries)>> :
                              entries \in Dirs(depth - 1)})}

\* the function Walk calls, without the return of the construction error
RECURSIVE Walk_skippingInvalid(_, _)
Walk_skippingInvalid(entries, promptFiles) ==
    IF entries = <<>> THEN [files |-> <<promptFiles>>, err |-> NoErr]
    ELSE LET info == Head(entries)
             made == NewPromptFileFromFile(info.name, info.data[1])
         IN  IF info.isDir
             THEN LET under == Walk_skippingInvalid(info.entries, promptFiles)
                  IN  Walk_skippingInvalid(Tail(entries), under.files[1])
             ELSE IF ToLower(Ext(info.name)) # promptFileExtension \/ made.err # NoErr
             THEN Walk_skippingInvalid(Tail(entries), promptFiles)
             ELSE Walk_skippingInvalid(Tail(entries), promptFiles \o made.pf)

\* FileStore.Load: filepath.Walk over the entries, in the order of their
\* names, a directory's entries at its place: [files, err], files <<>> for
\* nil and <<list>> for a list.  promptFiles is the list so far.
RECURSIVE Walk(_, _)
Walk(entries, promptFiles) ==
    IF entries = <<>> THEN [files |-> <<promptFiles>>, err |-> NoErr]
    ELSE LET info == Head(entries)
             made == NewPromptFileFromFile(info.name, info.data[1])
         IN  IF info.isDir
             THEN LET under == Walk(info.entries, promptFiles)
                  IN  IF under.err # NoErr THEN under
                      ELSE Walk(Tail(entries), under.files[1])
             ELSE IF ToLower(Ext(info.name)) # promptFileExtension
             THEN Walk(Tail(entries), promptFiles)
             ELSE IF made.err # NoErr
             THEN [files |-> <<>>, err |-> made.err]
             ELSE Walk(Tail(entries), promptFiles \o made.pf)

\* FSStore.loadFromDir over the entries fs.ReadDir returns, in the order of
\* their names: [files, err].  promptFiles, the list so far, is nil (<<>>)
\* until a document is appended.
RECURSIVE loadFromDir(_, _)
loadFromDir(entries, promptFiles) ==
    LET list == IF promptFiles = <<>> THEN <<>> ELSE promptFiles[1]
        appended(files) == IF list \o files = <<>> THEN <<>> ELSE <<list \o files>>
    IN  IF entries = <<>> THEN [files |-> promptFiles, err |-> NoErr]
        ELSE LET e == Head(entries)
                 under == loadFromDir(e.entries, <<>>)
                 made == NewPromptFile(e.name, e.data[1], <<>>)
             IN  IF e.isDir
                 THEN IF under.err # NoErr THEN [files |-> <<>>, err |-> under.err]
                      ELSE loadFromDir(Tail(entries),
                              appended(IF under.files = <<>> THEN <<>>
                                       ELSE under.files[1]))
                 ELSE IF ToLower(Ext(e.name)) # promptFileExtension
                 THEN loadFromDir(Tail(entries), promptFiles)
                 ELSE IF made.err # NoErr
                 THEN [files |-> <<>>, err |-> made.err]
                 ELSE loadFromDir(Tail(entries), appended(made.pf))

LoaderInit ==
    /\ phase = "stored"
    /\ tree \in {<<root>> : root \in Dirs(MaxDepth)}
    /\ PromptIdle
    /\ NameIdle
    /\ ManagerIdle
    /\ history = <<>>
    /\ pc = <<>>
    /\ args = <<>>
    /\ locals = <<>>
    /\ outcome = <<>>
    /\ fileStoreLoaded = <<>>
    /\ fsStoreLoaded = <<>>

\* NewFileStoreFromPath(root).Load()
CallFileStoreLoad ==
    /\ phase = "stored" /\ fileStoreLoaded = <<>>
    /\ fileStoreLoaded' = <<Walk(tree[1], <<>>)>>
    /\ UNCHANGED <<phase, promptVars, nameVars, managerVars, history,
                   pc, args, locals, outcome,
                   tree, fsStoreLoaded>>

\* NewFSStore(os.DirFS(root)).Load()
CallFSStoreLoad ==
    /\ phase = "stored" /\ fsStoreLoaded = <<>>
    /\ fsStoreLoaded' = <<loadFromDir(tree[1], <<>>)>>
    /\ UNCHANGED <<phase, promptVars, nameVars, managerVars, history,
                   pc, args, locals, outcome,
                   tree, fileStoreLoaded>>

LoaderNext ==
    \/ CallFileStoreLoad
    \/ CallFSStoreLoad

LoaderSpec == LoaderInit /\ [][LoaderNext]_vars

----------------------------------------------------------------------------
(* What the claims speak of, read from the state *)

Called == phase = "called"

\* the schema and the defaults of the constructed document, the caller's
\* values with nil read as the empty map
Declared == pf[1].Config.Input.Parameters
Defaults == pf[1].Config.Input.Default
Supplied == IF call.values = <<>> THEN <<>> ELSE call.values[1]

IsOptionalKey(key) == key # <<>> /\ key[Len(key)] = "?"
BaseKey(key) == IF IsOptionalKey(key) THEN SubSeq(key, 1, Len(key) - 1) ELSE key

\* the declared required keys that have neither a caller value nor a default
MissingRequired ==
    {key \in DOMAIN Declared :
        ~IsOptionalKey(key) /\ key \notin DOMAIN Supplied /\ key \notin DOMAIN Defaults}

\* the runtime kind a declared type asks for
KindAgrees(type, value) ==
    CASE type = tString -> value.kind = "string"
      [] type = tNumber -> value.kind \in {"int", "int8", "int16", "int32", "int64",
                                           "float32", "float64"}
      [] type = tBool -> value.kind = "bool"
      [] type = tDatetime -> value.kind = "time.Time"
      [] OTHER -> TRUE

\* s mentions "json" in some letter case
MentionsJson(s) ==
    \E i \in 1..(Len(s) - 3) :
        /\ s[i] \in {"j", "J"} /\ s[i + 1] \in {"s", "S"}
        /\ s[i + 2] \in {"o", "O"} /\ s[i + 3] \in {"n", "N"}

----------------------------------------------------------------------------
(* C1 *)

\* C1: a caller value for a parameter declared optional (schema key k?,
\* bound under k) is type-checked like a required one: when its runtime kind
\* disagrees with the declared type of k?, the render call fails with the
\* type-mismatch error.
C1_OptionalValueTypeChecked ==
    Called /\ MissingRequired = {} =>
        \A key \in DOMAIN Declared :
            /\ IsOptionalKey(key)
            /\ BaseKey(key) \in DOMAIN Supplied
            /\ ~KindAgrees(Declared[key], Supplied[BaseKey(key)])
            => /\ result.err.msg = NotATypeMsg
               /\ result.str = <<>>

----------------------------------------------------------------------------
(* C2 *)

\* C2: when a key declared without the ? suffix has neither a caller value
\* nor a default, the render call returns the empty string and the error
\* "no value provided for parameter <key>" for such a key, as declared; no
\* other call returns that error; a nil values map counts as the empty map.
C2_RequiredParameterEnforced ==
    Called =>
        /\ MissingRequired # {} =>
              /\ result.str = <<>>
              /\ result.err.msg = MissingMsg
              /\ result.err.key \in MissingRequired
        /\ MissingRequired = {} => result.err.msg # MissingMsg

\* a call with a nil values map has failed for the required key a
C2_Witness ==
    /\ Called
    /\ call.values = <<>>
    /\ MissingRequired = {keyA}
    /\ result = [str |-> <<>>, err |-> PromptError(MissingMsg, keyA, NoType)]

----------------------------------------------------------------------------
(* C3 *)

\* the string an object value is reduced to
Reduced(value) == StringValue(IF value.str # <<>> THEN value.str[1] ELSE value.text)

\* C3: for every declared key, a caller value under the un-suffixed key is
\* what is bound (as it is, or reduced to a string for an object), also when
\* a default exists; the default is bound only when the caller gives none;
\* and the user prompt {{a}}-{{ b }} then shows the value bound to a.
C3_CallerValueBeforeDefault ==
    Called /\ MissingRequired = {} =>
        /\ \A key \in DOMAIN Declared :
              LET k == BaseKey(key)
              IN  /\ k \in DOMAIN Supplied =>
                        /\ k \in DOMAIN bound
                        /\ bound[k] \in {Supplied[k], Reduced(Supplied[k])}
                  /\ k \notin DOMAIN Supplied /\ k \in DOMAIN Defaults =>
                        /\ k \in DOMAIN bound
                        /\ bound[k] = Defaults[k]
        /\ /\ call.fn = "GetUserPrompt"
           /\ template = tplAB
           /\ result.err = NoErr
           /\ keyA \in DOMAIN bound
           => LET shown == IF keyA \in DOMAIN Supplied
                           THEN Reduced(Supplied[keyA]).text
                           ELSE Defaults[keyA].text
              IN  SubSeq(result.str, 1, Len(shown) + 1) = shown \o <<"-">>

\* the caller's value for a has been bound and shown although a has a default
C3_Witness ==
    /\ Called
    /\ call.fn = "GetUserPrompt"
    /\ keyA \in DOMAIN Declared
    /\ keyA \in DOMAIN Defaults
    /\ keyA \in DOMAIN Supplied
    /\ result.err = NoErr
    /\ bound[keyA] = Supplied[keyA]
    /\ bound[keyA] # Defaults[keyA]
    /\ result.str = Supplied[keyA].text \o <<"-">>

----------------------------------------------------------------------------
(* C4 *)

\* C4: a key declared with the ? suffix that has no caller value and no
\* default is left out of the binding set, and the call does not fail for
\* it: no error names it, and a document that declares nothing else renders.
C4_OptionalOmitted ==
    Called =>
        \A key \in DOMAIN Declared :
            /\ IsOptionalKey(key)
            /\ BaseKey(key) \notin DOMAIN Supplied
            /\ BaseKey(key) \notin DOMAIN Defaults
            => /\ BaseKey(key) \notin DOMAIN bound
               /\ result.err.key # key
               /\ BaseKey(key) \notin DOMAIN Declared => result.err.key # BaseKey(key)
               /\ DOMAIN Declared = {key} => result.err = NoErr

\* a render has succeeded with the optional a? left unbound
C4_Witness ==
    /\ Called
    /\ keyAOpt \in DOMAIN Declared
    /\ keyB \in DOMAIN Declared
    /\ keyA \notin DOMAIN Supplied
    /\ keyA \notin DOMAIN Defaults
    /\ keyA \notin DOMAIN bound
    /\ keyB \in DOMAIN bound
    /\ result.err = NoErr

----------------------------------------------------------------------------
(* C5 *)

CheckedTypes == {tString, tNumber, tBool, tDatetime}

\* the keys declared required with a checked type whose bound value has
\* another runtime kind
WrongKind ==
    {key \in DOMAIN bound :
        /\ key \in DOMAIN Declared
        /\ Declared[key] \in CheckedTypes
        /\ ~KindAgrees(Declared[key], bound[key])}

\* C5: once every required key is bound, a value bound to a required key
\* declared string, number, bool or datetime whose runtime kind is not that
\* of the type makes the call fail with "parameter <key> is not a <type>" for
\* such a key and its declared type; when every such value has the kind of
\* its type, no call fails with that error.
C5_TypeMismatchReported ==
    Called /\ MissingRequired = {} =>
        /\ WrongKind # {} =>
              /\ result.str = <<>>
              /\ result.err.msg = NotATypeMsg
              /\ result.err.key \in WrongKind
              /\ result.err.type = Declared[result.err.key]
        /\ WrongKind = {} => result.err.msg # NotATypeMsg

\* a call has failed because the value bound to a is no datetime
C5_Witness ==
    /\ Called
    /\ keyA \in DOMAIN Declared
    /\ Declared[keyA] = tDatetime
    /\ keyA \in DOMAIN Supplied
    /\ Supplied[keyA].kind = "string"
    /\ result = [str |-> <<>>, err |-> PromptError(NotATypeMsg, keyA, tDatetime)]

----------------------------------------------------------------------------
(* C6 *)

\* C6: every value bound to a parameter declared object is a string when
\* validation and rendering see it, whether it came from the caller or from
\* the defaults.
C6_ObjectBoundAsString ==
    Called /\ MissingRequired = {} =>
        \A key \in DOMAIN Declared :
            Declared[key] = tObject /\ BaseKey(key) \in DOMAIN bound
            => bound[BaseKey(key)].kind = "string"

----------------------------------------------------------------------------
(* C7 *)

\* C7: when a required key is missing and another key is bound to a value of
\* the wrong runtime kind, the call fails with the missing-parameter error
\* and not with the type-mismatch error.
C7_MissingBeforeMismatch ==
    /\ Called
    /\ MissingRequired # {}
    /\ \E key \in DOMAIN Declared \ MissingRequired :
          /\ Declared[key] \in CheckedTypes
          /\ BaseKey(key) \in DOMAIN Supplied
          /\ ~KindAgrees(Declared[key], Supplied[BaseKey(key)])
    => /\ result.err.msg = MissingMsg
       /\ result.err.msg # NotATypeMsg

\* b was bound to a value that is no number before a was found missing
C7_Witness ==
    /\ Called
    /\ DOMAIN Declared = {keyA, keyB}
    /\ Declared[keyB] = tNumber
    /\ keyB \in DOMAIN bound
    /\ bound[keyB].kind = "bool"
    /\ MissingRequired = {keyA}
    /\ result.err = PromptError(MissingMsg, keyA, NoType)

----------------------------------------------------------------------------
(* C8 *)

\* C8: the template GetSystemPrompt renders is System followed by a space and
\* "Please provide the response in JSON" (the sentence alone when System is
\* empty) exactly when the output format is json and neither System nor User
\* mentions "json" in any letter case, and System unchanged otherwise; the
\* caller's values have no part in it.
C8_JsonSuffix ==
    Called /\ call.fn = "GetSystemPrompt" =>
        LET system == pf[1].Prompts.System
            augmented == /\ pf[1].Config.OutputFormat = Json
                         /\ ~MentionsJson(system)
                         /\ ~MentionsJson(pf[1].Prompts.User)
        IN  /\ augmented /\ system = <<>> => template = promptSuffix
            /\ augmented /\ system # <<>> => template = system \o <<" ">> \o promptSuffix
            /\ ~augmented => template = system

\* the suffix was appended although the caller's value, shown by the
\* template, is the text "json"
C8_Witness ==
    /\ Called
    /\ call.fn = "GetSystemPrompt"
    /\ pf[1].Config.OutputFormat = Json
    /\ pf[1].Prompts.System = tplA
    /\ keyA \in DOMAIN Supplied
    /\ Supplied[keyA] = vString
    /\ template = tplA \o <<" ">> \o promptSuffix
    /\ result = [str |-> sJson \o <<" ">> \o promptSuffix, err |-> NoErr]

----------------------------------------------------------------------------
(* C9 *)

\* the format a format node of the source names; Text when the node is absent
FormatNamed(node) ==
    IF node # <<>> /\ Len(node[1]) = 4 /\ MentionsJson(node[1]) THEN Json ELSE Text

\* C9: every document NewPromptFile returns has a nested output config and
\* Config.OutputFormat = Config.Output.Format; the value is that of the
\* legacy outputFormat when the source has no output block and that of
\* output.format when it has one, also when the two differ.
C9_OutputFormatReconciled ==
    pf # <<>> =>
        LET config == pf[1].Config
            data == source[1].data
        IN  /\ config.Output # <<>>
            /\ config.OutputFormat = config.Output[1].Format
            /\ data.output = <<>> => config.OutputFormat = FormatNamed(data.outputFormat)
            /\ data.output # <<>> => config.OutputFormat = FormatNamed(data.output)

\* a document was returned for a source whose two formats differ
C9_Witness ==
    /\ pf # <<>>
    /\ source[1].data.outputFormat = <<sText>>
    /\ source[1].data.output = <<sJson>>
    /\ pf[1].Config.OutputFormat = Json
    /\ pf[1].Config.Output = <<[Format |-> Json]>>

----------------------------------------------------------------------------
(* C10 *)

\* C10: a source that decodes and has an empty or absent prompts.user is
\* rejected by NewPromptFile with "no user prompt template was provided in
\* the prompt file"; every document returned has a non-empty user template,
\* so the template of a GetUserPrompt call is never empty.
C10_UserTemplateNonEmpty ==
    /\ phase # "new" /\ source[1].data.user = <<>> /\ newErr.msg # ParseErrorMsg
       => pf = <<>> /\ newErr = PromptError(NoUserPromptMsg, NoKey, NoType)
    /\ pf # <<>> => Len(pf[1].Prompts.User) > 0
    /\ Called /\ call.fn = "GetUserPrompt" => template # <<>>

\* a source without a user template has been rejected
C10_Witness ==
    /\ phase = "ready"
    /\ source[1].data.user = <<>>
    /\ pf = <<>>
    /\ newErr = PromptError(NoUserPromptMsg, NoKey, NoType)

----------------------------------------------------------------------------
(* Names, read character by character *)

NameLetters == UpperCase \cup LowerCase
IsBlank(c) == c \in {" ", "\r", "\n"}

\* the characters of x that a name may keep, in their order
Kept(x) == SelectSeq(x, LAMBDA c : c \in NameLetters \cup Digits \cup {" ", "-", "\r", "\n"})

\* the n-th smallest element of the set of numbers I
Nth(I, n) == CHOOSE i \in I : Cardinality({j \in I : j < i}) = n - 1

\* the positions of s that do not continue a run of blanks
RunStarts(s) == {i \in DOMAIN s : ~(IsBlank(s[i]) /\ i > 1 /\ IsBlank(s[i - 1]))}

Small(c) ==
    IF \E i \in DOMAIN Upper : Upper[i] = c
    THEN Lower[CHOOSE i \in DOMAIN Upper : Upper[i] = c]
    ELSE c

\* s with one hyphen for each run of blanks and small letters for capitals
Hyphenated(s) ==
    [n \in 1..Cardinality(RunStarts(s)) |->
        LET c == s[Nth(RunStarts(s), n)]
        IN  IF IsBlank(c) THEN "-" ELSE Small(c)]

\* h from its first to its last character that is not a hyphen
Inner(h) ==
    LET solid == {n \in DOMAIN h : h[n] # "-"}
    IN  IF solid = {} THEN <<>>
        ELSE SubSeq(h, CHOOSE n \in solid : \A m \in solid : n <= m,
                       CHOOSE n \in solid : \A m \in solid : n >= m)

\* the normal form of the name x
NormalForm(x) == Inner(Hyphenated(Kept(x)))

\* the source decodes: it is YAML and its format nodes name text or json
FormatOk(node) == node = <<>> \/ FormatNamed(node) = Json \/ ToLower(node[1]) = sText
Decodes(data) ==
    data.wellformed /\ FormatOk(data.outputFormat) /\ FormatOk(data.output)

\* the name NewPromptFile starts from
NameGiven == IF source[1].data.name # <<>> THEN source[1].data.name ELSE source[1].name

----------------------------------------------------------------------------
(* C11 *)

ValidTypes == {tString, tNumber, tBool, tDatetime, tObject}

\* the declared keys of the source whose type is not one of the five
InvalidKeys ==
    {key \in DOMAIN source[1].data.parameters :
        source[1].data.parameters[key] \notin ValidTypes}

\* C11: every document NewPromptFile returns declares only types from
\* {string, number, bool, datetime, object}; a source that passes the checks
\* before (it decodes, has a user template and a name) and declares another
\* type for a key, required or optional, is rejected with "invalid data type
\* for parameter <key>: <type>" for such a key and its type, and no document
\* is returned.
C11_OnlyValidTypes ==
    phase # "new" =>
        /\ pf # <<>> =>
              \A key \in DOMAIN pf[1].Config.Input.Parameters :
                  pf[1].Config.Input.Parameters[key] \in ValidTypes
        /\ /\ InvalidKeys # {}
           /\ Decodes(source[1].data)
           /\ source[1].data.user # <<>>
           /\ NormalForm(NameGiven) # <<>>
           => /\ pf = <<>>
              /\ newErr.msg = InvalidTypeMsg
              /\ newErr.key \in InvalidKeys
              /\ newErr.type = source[1].data.parameters[newErr.key]
        /\ InvalidKeys = {} => newErr.msg # InvalidTypeMsg

\* a source was rejected for the type of its optional key a?
C11_Witness ==
    /\ phase = "ready"
    /\ source[1].data.parameters = (keyAOpt :> tCat) @@ (keyB :> tString)
    /\ pf = <<>>
    /\ newErr = PromptError(InvalidTypeMsg, keyAOpt, tCat)

----------------------------------------------------------------------------
(* C12 *)

\* C12: when NewPromptFile has returned, the Name of its document is the
\* normal form of the declared name when the source declares one and of the
\* name argument otherwise, and it is not empty; when that normal form is
\* empty (and the source decodes and has a user template), NewPromptFile
\* returns no document and "the prompt file name, once cleaned, is empty".
C12_DocumentName ==
    phase = "ready" =>
        /\ pf # <<>> => pf[1].Name = NormalForm(NameGiven) /\ pf[1].Name # <<>>
        /\ /\ Decodes(source[1].data)
           /\ source[1].data.user # <<>>
           /\ NormalForm(NameGiven) = <<>>
           => pf = <<>> /\ newErr = PromptError(EmptyNameMsg, NoKey, NoType)
        /\ newErr.msg = EmptyNameMsg => NormalForm(NameGiven) = <<>>

\* the declared name was cleaned and kept although a name argument was given
C12_Witness ==
    /\ phase = "ready"
    /\ source[1].data.name = nameMixedCase
    /\ source[1].name = nameNewlines
    /\ pf # <<>>
    /\ pf[1].Name = <<"m","y","-","c","o","o","l","-","n","a","m","e">>

----------------------------------------------------------------------------
(* C13 *)

\* C13: cleanName returns for every argument a string of small letters,
\* digits and hyphens that neither starts nor ends with a hyphen: the
\* argument without the characters outside [A-Za-z0-9 \-\r\n], with one
\* hyphen for each run of blanks that is left, without the hyphens at its
\* ends, in small letters.  "clean\r\n\r\nthis name" gives "clean-this-name"
\* and "this <is .pretty> un*cl()ean" gives "this-is-pretty-unclean".
C13_CleanNameShape ==
    phase \in {"cleaned", "recleaned"} =>
        LET out == cleaned[1]
        IN  /\ \A i \in DOMAIN out : out[i] \in LowerCase \cup Digits \cup {"-"}
            /\ out # <<>> => out[1] # "-" /\ out[Len(out)] # "-"
            /\ out = NormalForm(rawName)
            /\ rawName = nameNewlines =>
                  out = <<"c","l","e","a","n","-","t","h","i","s","-","n","a","m","e">>
            /\ rawName = nameInvalidChars =>
                  out = <<"t","h","i","s","-","i","s","-","p","r","e","t","t","y","-",
                          "u","n","c","l","e","a","n">>

\* the run \r\n\r\n between two words has become one hyphen
C13_Witness ==
    /\ phase = "cleaned"
    /\ rawName = nameNewlines
    /\ cleaned = << <<"c","l","e","a","n","-","t","h","i","s","-","n","a","m","e">> >>

----------------------------------------------------------------------------
(* C14 *)

\* C14: cleanName of a name cleanName has returned is that name.
C14_CleanNameIdempotent ==
    phase = "recleaned" => recleaned = cleaned

\* a name that cleaning changed was cleaned again and came back the same
C14_Witness ==
    /\ phase = "recleaned"
    /\ rawName = <<"-", "A", " ">>
    /\ cleaned = << <<"a">> >>
    /\ recleaned = << <<"a">> >>

----------------------------------------------------------------------------
(* C15 *)

\* C15: for every document d that NewPromptFile has returned, Serialize
\* succeeds and NewPromptFile(d.Name, serialized d) returns without error a
\* document equal to d in name, model, temperature, max tokens, both output
\* formats, parameters, defaults, templates and few-shot pairs in order.
C15_RoundTrip ==
    /\ phase \in {"serialized", "reloaded"} => serialized[1].err = NoErr
    /\ phase = "reloaded" =>
          /\ reloaded[1].err = NoErr
          /\ reloaded[1].pf # <<>>
          /\ LET d == pf[1]
                 e == reloaded[1].pf[1]
             IN  /\ e.Name = d.Name
                 /\ e.Model = d.Model
                 /\ e.Config.Temperature = d.Config.Temperature
                 /\ e.Config.MaxTokens = d.Config.MaxTokens
                 /\ e.Config.OutputFormat = d.Config.OutputFormat
                 /\ e.Config.Output = d.Config.Output
                 /\ e.Config.Input.Parameters = d.Config.Input.Parameters
                 /\ e.Config.Input.Default = d.Config.Input.Default
                 /\ e.Prompts = d.Prompts
                 /\ e.FewShots = d.FewShots

\* a document whose source gave two formats that differ came back the same
C15_Witness ==
    /\ phase = "reloaded"
    /\ source[1].data.outputFormat = <<sText>>
    /\ source[1].data.output = <<sJson>>
    /\ pf[1].Config.OutputFormat = Json
    /\ serialized[1].data[1].outputFormat = <<sJson>>
    /\ reloaded[1] = [pf |-> pf, err |-> NoErr]

----------------------------------------------------------------------------
(* C16 *)

SignedOrFloat == {"int", "int8", "int16", "int32", "int64", "float32", "float64"}

----------------------------------------------------------------------------
(* C17 *)

\* no other declared key binds under the same un-suffixed key
DeclaredOnce(key) ==
    \A other \in DOMAIN Declared : BaseKey(other) = BaseKey(key) => other = key

\* C17: a caller value for a key declared object (and declared once) is
\* bound as the string its String() method returns when it has one and as
\* the string of its field:value dump otherwise; a caller value for a key of
\* another declared type is bound as it is.
C17_ObjectStringified ==
    Called =>
        \A key \in DOMAIN Declared :
            LET k == BaseKey(key)
            IN  k \in DOMAIN Supplied /\ DeclaredOnce(key) =>
                    /\ MissingRequired = {} => k \in DOMAIN bound
                    /\ k \in DOMAIN bound =>
                          IF Declared[key] = tObject
                          THEN /\ bound[k].kind = "string"
                               /\ Supplied[k].str # <<>> => bound[k].text = Supplied[k].str[1]
                               /\ Supplied[k].str = <<>> => bound[k].text = Supplied[k].text
                          ELSE bound[k] = Supplied[k]

\* a TestStruct was bound as what its String() returns and b as it was given
C17_Witness ==
    /\ Called
    /\ keyA \in DOMAIN Declared /\ Declared[keyA] = tObject
    /\ keyB \in DOMAIN Declared /\ Declared[keyB] = tNumber
    /\ Supplied = (keyA :> vTestStruct) @@ (keyB :> vInt)
    /\ bound = (keyA :> StringValue(<<"H"," ",":"," ","1">>)) @@ (keyB :> vInt)
    /\ result.err = NoErr

----------------------------------------------------------------------------
(* C18 *)

Loaded == loader[1].PromptFiles
Registry == manager[1].PromptFiles

\* the names that two of the loaded documents carry
DuplicateNames ==
    {Loaded[i].Name : i \in {i \in DOMAIN Loaded :
                                \E j \in DOMAIN Loaded : j # i /\ Loaded[j].Name = Loaded[i].Name}}

\* C18: when Load succeeds and two loaded documents carry the same name,
\* NewManagerFromLoader returns no manager and "duplicate prompt file name:
\* <name>" for such a name; when it returns a manager, the map has one entry
\* for each loaded document, under that document's Name, and
\* ListPromptFileNames returns each key of the map once and nothing else.
C18_DuplicateDetection ==
    /\ phase # "new" /\ loader # <<>> /\ loader[1].Err = NoErr /\ DuplicateNames # {}
       => /\ manager = <<>>
          /\ managerErr.msg = DuplicateNameMsg
          /\ managerErr.key \in DuplicateNames
    /\ phase # "new" /\ manager # <<>>
       => /\ managerErr = NoErr
          /\ DuplicateNames = {}
          /\ Cardinality(DOMAIN Registry) = Len(Loaded)
          /\ \A i \in DOMAIN Loaded :
                Loaded[i].Name \in DOMAIN Registry /\ Registry[Loaded[i].Name] = Loaded[i]
    /\ phase = "listed"
       => /\ Len(names) = Cardinality(DOMAIN Registry)
          /\ {names[i] : i \in DOMAIN names} = DOMAIN Registry

\* two documents named example with different templates were refused
C18_Witness ==
    /\ phase = "managed"
    /\ loader = <<[PromptFiles |-> <<document(nameExample, tplEmpty),
                                     document(nameExample, tplPlain)>>,
                   Err |-> NoErr]>>
    /\ manager = <<>>
    /\ managerErr = PromptError(DuplicateNameMsg, nameExample, NoType)

----------------------------------------------------------------------------
(* C19 *)

\* C19: with a nil loader NewManagerFromLoader returns no manager and the
\* PromptError "loader cannot be nil"; with a loader it calls Load once, and
\* when Load returns an error it returns that error and no manager.
C19_LoaderChecked ==
    phase # "new" =>
        /\ loader = <<>> =>
              /\ manager = <<>>
              /\ managerErr = PromptError(NilLoaderMsg, NoKey, NoType)
              /\ loadCount = 0
        /\ loader # <<>> => loadCount = 1
        /\ loader # <<>> /\ loader[1].Err # NoErr =>
              manager = <<>> /\ managerErr = loader[1].Err

\* Load returned documents together with an error: the error came back
C19_Witness ==
    /\ phase = "managed"
    /\ loader # <<>>
    /\ Len(loader[1].PromptFiles) = 2
    /\ loader[1].Err = loadError
    /\ loadCount = 1
    /\ manager = <<>>
    /\ managerErr = loadError

----------------------------------------------------------------------------
(* C20 *)

NotFoundMsg == "prompt file not found: %s"

\* the error a call has returned: none when it returns no error value
ErrorOf(returned) == IF "err" \in DOMAIN returned THEN returned.err ELSE NoErr

\* C20: GetPromptFile(name) returns the PromptError "prompt file not found:
\* <name>" for a name that is not registered, and for a registered name it
\* returns without error the document whose Name is name.
C20_NotFoundError ==
    phase = "found" =>
        /\ lookup.name \notin DOMAIN Registry =>
              ErrorOf(lookup) = PromptError(NotFoundMsg, lookup.name, NoType)
        /\ lookup.name \in DOMAIN Registry =>
              /\ ErrorOf(lookup) = NoErr
              /\ lookup.promptFile[1].Name = lookup.name


----------------------------------------------------------------------------
\* the document Serialize was called on and the keys of the YAML it wrote
Written == serialized[1].keys
Serialized == phase \in {"serialized", "reloaded"} /\ serialized[1].err = NoErr

\* C22: Serialize writes no key for a nil temperature, a nil max-tokens, an
\* empty model, an empty few-shot list, an empty system template, an empty
\* defaults map or a nil nested output config, and it always writes
\* config.outputFormat, config.input.parameters and prompts.user.
C22_OmitEmpty ==
    Serialized =>
        /\ pf[1].Config.Temperature = <<>> => "config.temperature" \notin Written
        /\ pf[1].Config.MaxTokens = <<>> => "config.maxTokens" \notin Written
        /\ Len(pf[1].Model) = 0 => "model" \notin Written
        /\ Len(pf[1].FewShots) = 0 => "fewShots" \notin Written
        /\ Len(pf[1].Prompts.System) = 0 => "prompts.system" \notin Written
        /\ DOMAIN pf[1].Config.Input.Default = {} => "config.input.default" \notin Written
        /\ pf[1].Config.Output = <<>> =>
              Written \cap {"config.output", "config.output.format"} = {}
        /\ {"config.outputFormat", "config.input.parameters", "prompts.user"}
              \subseteq Written

\* the document of the Serialize test: a name, a model, a schema and both
\* templates, nothing else; it is written with these keys only
C22_Witness ==
    /\ Serialized
    /\ pf[1].Name = nameExample /\ Len(pf[1].Model) > 0
    /\ pf[1].Config.Temperature = <<>> /\ pf[1].Config.MaxTokens = <<>>
    /\ pf[1].Config.Output = <<>> /\ pf[1].Config.OutputFormat = Json
    /\ DOMAIN pf[1].Config.Input.Default = {}
    /\ Len(pf[1].FewShots) = 0
    /\ Written = {"name", "model", "config", "config.outputFormat", "config.input",
                  "config.input.parameters", "prompts", "prompts.system",
                  "prompts.user"}

----------------------------------------------------------------------------
\* C23: the outcome of binding plus validation, the binding set or the error
\* with the key it names, is the same for every order in which the declared
\* parameters and the bound keys are visited: every order gives what the
\* call returned.
C23_OrderIrrelevant ==
    Called /\ result.err.msg # RenderErrorMsg =>
        \A order1 \in Orders(DOMAIN Declared) :
            \A order2 \in Orders(boundKeys(pf[1], call.values, order1)) :
                LET parsed == parseAndValidateParameters(pf[1], call.values,
                                                         order1, order2)
                IN  /\ parsed.err = result.err
                    /\ parsed.err = NoErr => parsed.bindings = <<bound>>

----------------------------------------------------------------------------
\* C24: the checks of NewPromptFile run in a fixed order and the first one
\* that fails decides the error: a source that does not decode is reported
\* as a parse failure; else one without a user template as that; else one
\* whose name cleans to nothing as that; else one with a type that is not
\* valid as that; a source with none of these defects is constructed, and
\* its output format reconciled.
C24_FirstDefectDecides ==
    phase = "ready" =>
        IF ~Decodes(source[1].data)
        THEN pf = <<>> /\ newErr.msg = ParseErrorMsg
        ELSE IF Len(source[1].data.user) = 0
        THEN pf = <<>> /\ newErr.msg = NoUserPromptMsg
        ELSE IF NormalForm(NameGiven) = <<>>
        THEN pf = <<>> /\ newErr.msg = EmptyNameMsg
        ELSE IF InvalidKeys # {}
        THEN pf = <<>> /\ newErr.msg = InvalidTypeMsg
        ELSE /\ newErr = NoErr
             /\ pf # <<>>
             /\ pf[1].Config.Output = <<[Format |-> pf[1].Config.OutputFormat]>>

\* a source with three defects, no user template, a name that cleans to
\* nothing and a type that is not valid, is reported for the user template
C24_Witness ==
    /\ phase = "ready"
    /\ Decodes(source[1].data)
    /\ Len(source[1].data.user) = 0
    /\ InvalidKeys # {}
    /\ NormalForm(NameGiven) = <<>>
    /\ pf = <<>>
    /\ newErr = PromptError(NoUserPromptMsg, NoKey, NoType)

----------------------------------------------------------------------------
\* C25: NewPromptFile returns either no document and an error, or a document
\* and no error; a returned document has passed every check: it has a user
\* template, its name is in normal form and not empty, its declared types
\* are valid and its two output formats are set and equal.
C25_AllOrNothing ==
    phase = "ready" =>
        /\ pf = <<>> <=> newErr # NoErr
        /\ pf # <<>> =>
              /\ Len(pf[1].Prompts.User) > 0
              /\ \A key \in DOMAIN pf[1].Config.Input.Parameters :
                    pf[1].Config.Input.Parameters[key] \in ValidTypes
              /\ pf[1].Config.Output # <<>>
              /\ pf[1].Config.OutputFormat = pf[1].Config.Output[1].Format
              /\ Len(pf[1].Name) > 0
              /\ NormalForm(pf[1].Name) = pf[1].Name

\* a source that fails the last check, after its name has been changed by
\* the normaliser: nothing is returned but the error
C25_Witness ==
    /\ phase = "ready"
    /\ newErr.msg = InvalidTypeMsg
    /\ pf = <<>>
    /\ NormalForm(NameGiven) # NameGiven
    /\ NormalForm(NameGiven) # <<>>

----------------------------------------------------------------------------
\* the un-suffixed forms of the declared keys, and the keys of the caller's
\* map that are none of them
DeclaredBase == {BaseKey(key) : key \in DOMAIN Declared}
Undeclared == DOMAIN Supplied \ DeclaredBase

\* what the engine writes for the tag of key: the bound value, nothing when
\* key is not bound
Shown(key) == IF key \in DOMAIN bound THEN Reduced(bound[key]).text ELSE <<>>

\* C28: the binding set of a render call holds only un-suffixed forms of
\* declared keys; a caller value under a key that is not declared is not
\* bound, is not the key of the call's error, and is not shown: the text of
\* {{a}}-{{ b }} ends at the hyphen when b is not declared, and the text of
\* {{a}} is empty when a is not declared.
C28_OnlyDeclaredBound ==
    Called =>
        /\ DOMAIN bound \subseteq DeclaredBase
        /\ \A key \in Undeclared :
              /\ key \notin DOMAIN bound
              /\ result.err.key # key
              /\ result.err = NoErr /\ template = tplAB /\ key = keyB =>
                    result.str = Shown(keyA) \o <<"-">>
              /\ result.err = NoErr /\ template = tplA /\ key = keyA =>
                    result.str = <<>>
        /\ result.err.msg \in {MissingMsg, NotATypeMsg} =>
              BaseKey(result.err.key) \in DeclaredBase

\* a call that gives values for a, declared, and for b, not declared: a is
\* bound and shown, b is neither
C28_Witness ==
    /\ Called
    /\ call.fn = "GetUserPrompt"
    /\ template = tplAB
    /\ DeclaredBase = {keyA}
    /\ DOMAIN Supplied = {keyA, keyB}
    /\ result.err = NoErr
    /\ DOMAIN bound = {keyA}
    /\ result.str = Supplied[keyA].text \o <<"-">>
    /\ Supplied[keyB].text # <<>>

----------------------------------------------------------------------------
\* the required keys that map declares with a checked type and for which
\* defaults holds a value of another kind
BadDefaults(parameters, defaults) ==
    {key \in DOMAIN parameters \cap DOMAIN defaults :
        /\ ~IsOptionalKey(key)
        /\ parameters[key] \in CheckedTypes
        /\ ~KindAgrees(parameters[key], defaults[key])}

\* C30: NewPromptFile does not check the defaults: a source with no other
\* defect is constructed also when the default of a required key has a kind
\* that disagrees with the declared type.  A render that falls back to such
\* a default fails: once every required key is bound, with "parameter <key>
\* is not a <type>" for a key bound to a wrong kind, which is that key when
\* it is the only one.  A render that gives a value of the right kind for
\* the key, with nothing else wrong, succeeds.
C30_DefaultsUnchecked ==
    /\ /\ phase = "ready"
       /\ BadDefaults(source[1].data.parameters, source[1].data.default) # {}
       /\ InvalidKeys = {}
       /\ Decodes(source[1].data)
       /\ Len(source[1].data.user) > 0
       /\ NormalForm(NameGiven) # <<>>
       => pf # <<>> /\ newErr = NoErr /\ Defaults = source[1].data.default
    /\ Called =>
          \A key \in BadDefaults(Declared, Defaults) :
              /\ key \notin DOMAIN Supplied =>
                    /\ result.err # NoErr
                    /\ result.str = <<>>
                    /\ MissingRequired = {} =>
                          /\ key \in WrongKind
                          /\ result.err.msg = NotATypeMsg
                          /\ result.err.key \in WrongKind
                          /\ result.err.type = Declared[result.err.key]
              /\ /\ key \in DOMAIN Supplied
                 /\ KindAgrees(Declared[key], Supplied[key])
                 /\ MissingRequired = {}
                 /\ WrongKind = {}
                 => result.err = NoErr

\* a is required, declared number, and its default is a string; a render
\* without a value for a fails for a
C30_Witness ==
    /\ Called
    /\ keyA \in BadDefaults(Declared, Defaults)
    /\ Declared[keyA] = tNumber
    /\ keyA \notin DOMAIN Supplied
    /\ result = [str |-> <<>>, err |-> PromptError(NotATypeMsg, keyA, tNumber)]

----------------------------------------------------------------------------
\* C26: a render call, whether it succeeds or fails, leaves the document
\* and the caller's map as they were; a call that fails returns the empty
\* string; and a call repeated later with the same values returns the same
\* string and the same error as the first.
C26_NoSideEffects ==
    \A i \in DOMAIN history :
        /\ history[i].doc = pf[1]
        /\ history[i].after = history[i].values
        /\ history[i].err # NoErr => history[i].str = <<>>
        /\ \A j \in DOMAIN history :
              /\ i < j
              /\ history[j].fn = history[i].fn
              /\ history[j].values = history[i].values
              => /\ history[j].str = history[i].str
                 /\ history[j].err = history[i].err

----------------------------------------------------------------------------
\* the results caller c's call can have when it runs alone, visiting the
\* declared parameters in the order it did
Alone(c) ==
    {[str |-> r.str, err |-> r.err] :
        r \in {generatePrompt(pf[1], args[c][1].template, args[c][1].values,
                              args[c][1].order1, order2) :
                  order2 \in Orders(boundKeys(pf[1], args[c][1].values,
                                              args[c][1].order1))}}

\* C27: whatever the interleaving of the callers' steps, every caller that
\* has returned has a result its call has when it runs alone.
C27_ConcurrentRenders ==
    \A c \in Callers : pc[c] = "done" => outcome[c] \in Alone(c)

\* two callers have returned, one with the text of its own value, the other
\* with the error of its own call, each after the other had entered
C27_Witness ==
    /\ \A c \in Callers : pc[c] = "done"
    /\ \E c, d \in Callers :
          /\ args[c][1].values = <<(keyA :> vString)>>
          /\ outcome[c] = [str |-> vString.text, err |-> NoErr]
          /\ args[d][1].values = <<(keyA :> vInt)>>
          /\ outcome[d].err = PromptError(NotATypeMsg, keyA, tString)

----------------------------------------------------------------------------
\* the name ends in .prompt, in any letter case
IsPromptName(name) ==
    /\ Len(name) >= 7
    /\ ToLower(SubSeq(name, Len(name) - 6, Len(name))) = <<".","p","r","o","m","p","t">>

\* the files under entries, at any depth, whose name ends in .prompt, in the
\* order of the names with the files of a directory at its place
RECURSIVE PromptFilesUnder(_)
PromptFilesUnder(entries) ==
    IF entries = <<>> THEN <<>>
    ELSE (IF Head(entries).isDir THEN PromptFilesUnder(Head(entries).entries)
          ELSE IF IsPromptName(Head(entries).name) THEN <<Head(entries)>>
          ELSE <<>>) \o PromptFilesUnder(Tail(entries))

\* the file holds no document: it is not YAML or it has no user template
HoldsNoDocument(file) == ~Decodes(file.data[1]) \/ Len(file.data[1].user) = 0

\* what the two Load calls have returned so far, and the list in a result
Loads == {loaded[1] : loaded \in {fileStoreLoaded, fsStoreLoaded} \ {<<>>}}
ListOf(load) == IF load.files = <<>> THEN <<>> ELSE load.files[1]

\* C21: FileStore.Load and FSStore.Load construct every file under the root,
\* at any depth, whose extension is .prompt in any letter case, and no other
\* file.  When one of these files holds no document, Load returns the error
\* of its construction and a nil list; otherwise it returns, without error,
\* one document for each of them, in their order.
C21_LoadersFailFast ==
    \A load \in Loads :
        LET visited == PromptFilesUnder(tree[1])
        IN  IF \E i \in DOMAIN visited : HoldsNoDocument(visited[i])
            THEN /\ load.files = <<>>
                 /\ load.err = PromptError(NoUserPromptMsg, NoKey, NoType)
            ELSE /\ load.err = NoErr
                 /\ Len(ListOf(load)) = Len(visited)
                 /\ \A i \in DOMAIN visited :
                       ListOf(load)[i].Prompts.User = visited[i].data[1].user

\* a root with a good Other.PROMPT and a notes.txt, and under sub a
\* basic.prompt without user template: both stores return the error and nil
C21_Witness ==
    /\ fileStoreLoaded # <<>> /\ fsStoreLoaded # <<>>
    /\ Len(tree[1]) = 3
    /\ ~HoldsNoDocument(tree[1][1])
    /\ tree[1][2].name = <<"n","o","t","e","s",".","t","x","t">>
    /\ tree[1][3].isDir
    /\ Len(tree[1][3].entries) = 1
    /\ HoldsNoDocument(tree[1][3].entries[1])
    /\ \A load \in Loads :
          load = [files |-> <<>>, err |-> PromptError(NoUserPromptMsg, NoKey, NoType)]

----------------------------------------------------------------------------
\* the names of the documents a Load call returned
NamesOf(load) == {ListOf(load)[i].Name : i \in DOMAIN ListOf(load)}

\* C29: for the same tree, the documents FSStore.Load returns have the same
\* set of names as those FileStore.Load returns, also for the files that
\* declare no name.
C29_LoadersAgree ==
    /\ fileStoreLoaded # <<>> /\ fsStoreLoaded # <<>>
    /\ fileStoreLoaded[1].err = NoErr /\ fsStoreLoaded[1].err = NoErr
    => NamesOf(fsStoreLoaded[1]) = NamesOf(fileStoreLoaded[1])
====
